---- MODULE Spec2Model ----
(***************************************************************************)
(* Model of the flight-route engine of RouteController                     *)
(* (src/src/route/routecontroller.cpp): the flight plan and its route      *)
(* legs, the procedure ranges attached to them, the undo/redo stack with   *)
(* the controller's own undoIndex/undoIndexClean bookkeeping, saving and   *)
(* loading, and the route calculation with its distance-ratio acceptance.  *)
(*                                                                         *)
(* Indexes are 0-based as in the C++ code; the helpers below translate to  *)
(* TLA+'s 1-based sequences.  The classes Route, RouteCommand, RouteFinder *)
(* and the procedure query are not part of the two source files; what the  *)
(* controller needs of them is modelled from the design description and    *)
(* is marked as such in the model map.                                     *)
(***************************************************************************)
EXTENDS Integers, Sequences, FiniteSets, TLC

VARIABLES
  route,            \* Route: [flightplan, legs, departureLegs, starLegs, arrivalLegs]
  undoStack,        \* QUndoStack command list: Seq of [before, after, type]
  stackIndex,       \* QUndoStack index (number of commands that can be undone)
  stackClean,       \* QUndoStack clean index (-1: none)
  undoIndex,        \* RouteController::undoIndex
  undoIndexClean,   \* RouteController::undoIndexClean
  routeFilename,    \* RouteController::routeFilename
  routeFileFormat,  \* RouteController::routeFileFormat
  fileDeparture,    \* RouteController::fileDeparture
  fileDestination,  \* RouteController::fileDestination
  fileIfrVfr,       \* RouteController::fileIfrVfr
  spinBoxRouteAlt,  \* value of the cruise altitude spin box
  comboBoxRouteType,\* index of the flight plan type combo box (0 IFR, 1 VFR)
  routeAltDelayTimer, \* TRUE while the single-shot altitude timer is running
  routeNetworkQueries, \* TRUE while the queries of routeNetworkRadio and
                    \* routeNetworkAirway are initialized
  op,               \* history: the handler that ran last, its inputs and result
  saved,            \* history: flight plan value at the last save / new / load
  track,            \* history: value after the last non-merged change, and stage
  approachTree      \* ApproachTreeController: its members, the items of the tree
                    \* widget, and the accesses of the last handler that were
                    \* outside the bounds of itemIndex

vars == <<route, undoStack, stackIndex, stackClean, undoIndex, undoIndexClean,
          routeFilename, routeFileFormat, fileDeparture, fileDestination, fileIfrVfr,
          spinBoxRouteAlt, comboBoxRouteType, routeAltDelayTimer,
          routeNetworkQueries, op, saved, track, approachTree>>

\* The variables of RouteController
routeVars == <<route, undoStack, stackIndex, stackClean, undoIndex, undoIndexClean,
               routeFilename, routeFileFormat, fileDeparture, fileDestination, fileIfrVfr,
               spinBoxRouteAlt, comboBoxRouteType, routeAltDelayTimer,
               routeNetworkQueries, op, saved, track>>
undoVars == <<undoStack, stackIndex, stackClean, undoIndex, undoIndexClean>>
fileVars == <<routeFilename, routeFileFormat, fileDeparture, fileDestination, fileIfrVfr>>
widgetVars == <<spinBoxRouteAlt, comboBoxRouteType>>

----------------------------------------------------------------------------
(* Bounds of the model *)

\* Largest number of non-procedure entries an edit may grow the plan to.
MaxEntries == 3
\* No further command is pushed once undoIndex has reached this value.
MaxUndoIndex == 3
\* QUndoStack undo limit (ROUTE_UNDO_LIMIT is declared in the header; scaled down).
ROUTE_UNDO_LIMIT == 2
\* Path and direct distances of a calculated route are drawn from 0..MaxDistance.
MaxDistance == 3
\* The editing and calculation specifications stop changing the plan at this undoIndex.
MaxEditIndex == 2

\* RouteController::calculateRouteInternal compares distance / directDistance to this.
MAX_DISTANCE_DIRECT_RATIO == 2

----------------------------------------------------------------------------
(* Sequence helpers with the 0-based indexes of QList *)

At(s, i) == s[i + 1]
\* QList::insert(i, value): prepends if i <= 0, appends if i >= size()
InsertAt(s, i, e) ==
  LET k == IF i < 0 THEN 0 ELSE IF i > Len(s) THEN Len(s) ELSE i
  IN SubSeq(s, 1, k) \o <<e>> \o SubSeq(s, k + 1, Len(s))
RemoveAt(s, i) == SubSeq(s, 1, i) \o SubSeq(s, i + 2, Len(s))
ReplaceAt(s, i, e) == [s EXCEPT ![i + 1] = e]
\* QList::move(from, to): take the element at from and insert it at to
MoveAt(s, from, to) == InsertAt(RemoveAt(s, from), to, At(s, from))
Rows(s) == 0 .. (Len(s) - 1)

RECURSIVE SeqFilter(_, _)
\* the elements of s whose 0-based index is not in drop, in order
SeqFilter(s, drop) ==
  IF s = <<>> THEN <<>>
  ELSE LET n == Len(s)
           front == SeqFilter(SubSeq(s, 1, n - 1), drop)
       IN IF (n - 1) \in drop THEN front ELSE Append(front, s[n])

RECURSIVE SortedDesc(_)
\* the rows of a set as a sequence, largest first
SortedDesc(S) ==
  IF S = {} THEN <<>>
  ELSE LET m == CHOOSE x \in S : \A y \in S : y <= x
       IN <<m>> \o SortedDesc(S \ {m})

RECURSIVE SortedAsc(_)
SortedAsc(S) ==
  IF S = {} THEN <<>>
  ELSE LET m == CHOOSE x \in S : \A y \in S : x <= y
       IN <<m>> \o SortedAsc(S \ {m})

Max(S) == CHOOSE x \in S : \A y \in S : y <= x
Min(S) == CHOOSE x \in S : \A y \in S : x <= y

----------------------------------------------------------------------------
(* The navigation database as far as the controller uses it *)

Airports == {"KA", "KB"}
Waypoints == {"W1", "W2"}
Airways == {"V1"}
Altitudes == {10000, 25000}
FileFormats == {"PLN_FSX", "PLN_FS9", "FMS11"}

AirportName(ident) == IF ident = "KA" THEN "Alpha" ELSE "Bravo"
\* AirportQuery::getBestStartPositionForAirport: runway name of the best start
BestStart(ident) == IF ident = "KA" THEN "09" ELSE "27"

\* Procedure membership tags of a route leg
PROCEDURE_NONE == {}
PROCEDURE_SID == {"SID"}
PROCEDURE_SID_TRANSITION == {"SID_TRANSITION"}
PROCEDURE_STAR == {"STAR"}
PROCEDURE_STAR_TRANSITION == {"STAR_TRANSITION"}
PROCEDURE_TRANSITION == {"TRANSITION"}
PROCEDURE_APPROACH == {"APPROACH"}
PROCEDURE_MISSED == {"MISSED"}
PROCEDURE_DEPARTURE == PROCEDURE_SID \cup PROCEDURE_SID_TRANSITION
PROCEDURE_STAR_ALL == PROCEDURE_STAR \cup PROCEDURE_STAR_TRANSITION
PROCEDURE_ARRIVAL == PROCEDURE_TRANSITION \cup PROCEDURE_APPROACH \cup PROCEDURE_MISSED
PROCEDURE_ARRIVAL_ALL == PROCEDURE_ARRIVAL \cup PROCEDURE_STAR_ALL
PROCEDURE_ALL == PROCEDURE_DEPARTURE \cup PROCEDURE_ARRIVAL_ALL

ProcLeg(ident, tag) == [ident |-> ident, tag |-> tag]

\* proc::MapProcedureLegs with no procedure
EmptyProcedure ==
  [approachFixIdent |-> "", transitionFixIdent |-> "",
   approachLegs |-> <<>>, transitionLegs |-> <<>>]

\* Departure procedures of the database: SID1 has two legs, SID0 consists of
\* transitions only (no common legs); both have the transition TR.
DepartureProcedure(sid, trans) ==
  [approachFixIdent |-> sid, transitionFixIdent |-> trans,
   approachLegs |-> IF sid = "SID1"
                    THEN <<ProcLeg("S1", "SID"), ProcLeg("S3", "SID")>> ELSE <<>>,
   transitionLegs |-> IF trans # "" THEN <<ProcLeg("S2", "SID_TRANSITION")>> ELSE <<>>]

StarProcedure(star, trans) ==
  [approachFixIdent |-> star, transitionFixIdent |-> trans,
   approachLegs |-> IF star # "" THEN <<ProcLeg("R2", "STAR")>> ELSE <<>>,
   transitionLegs |-> IF trans # "" THEN <<ProcLeg("R1", "STAR_TRANSITION")>> ELSE <<>>]

\* An approach has its missed approach leg at the end of its approach legs
ArrivalProcedure(approach, trans) ==
  [approachFixIdent |-> approach, transitionFixIdent |-> trans,
   approachLegs |-> IF approach # ""
                    THEN <<ProcLeg("A1", "APPROACH"), ProcLeg("M1", "MISSED")>> ELSE <<>>,
   transitionLegs |-> IF trans # "" THEN <<ProcLeg("T1", "TRANSITION")>> ELSE <<>>]

IsEmptyProcedure(p) == p.approachLegs = <<>> /\ p.transitionLegs = <<>>

\* Procedure properties of a flight plan (the procedure names it is saved with)
NoProperties ==
  [sidappr |-> "", sidtrans |-> "", star |-> "", startrans |-> "",
   approach |-> "", transition |-> ""]

----------------------------------------------------------------------------
(* Flight plan entries, route legs and the Route object *)

\* atools FlightplanEntry as built by FlightplanEntryBuilder for a map object
Entry(ident) ==
  [ident |-> ident,
   waypointType |-> IF ident \in Airports THEN "AIRPORT" ELSE "WAYPOINT",
   airway |-> "", noSave |-> FALSE]

\* Entry the entry builder creates for a procedure leg: never saved
ProcedureEntry(pl) ==
  [ident |-> pl.ident, waypointType |-> "WAYPOINT", airway |-> "", noSave |-> TRUE]

\* RouteLeg::createFromProcedureLeg
ProcedureRouteLeg(pl) ==
  [ident |-> pl.ident, type |-> "PROCEDURE", proc |-> pl.tag, start |-> ""]

\* RouteLeg::createFromDatabaseByEntry: an airport leg without predecessor
\* resolves the departure start position named in the flight plan
CreateFromDatabaseByEntry(entry, fp, hasPrev) ==
  [ident |-> entry.ident,
   type |-> IF entry.waypointType = "AIRPORT" THEN "AIRPORT" ELSE "WAYPOINT",
   proc |-> "NONE",
   start |-> IF entry.waypointType = "AIRPORT" /\ ~hasPrev
                /\ fp.departureParkingName = BestStart(entry.ident)
             THEN fp.departureParkingName ELSE ""]

\* RouteLeg::createFromAirport
CreateFromAirport(airport) ==
  [ident |-> airport, type |-> "AIRPORT", proc |-> "NONE", start |-> ""]

IsAnyProcedure(leg) == leg.proc # "NONE"

\* atools Flightplan::clear: entries and plan data reset, properties kept
FlightplanClear(fp) ==
  [fp EXCEPT !.entries = <<>>,
             !.departureIdent = "", !.departureAiportName = "",
             !.departureParkingName = "",
             !.destinationIdent = "", !.destinationAiportName = "",
             !.cruisingAltitude = 10000, !.flightplanType = "VFR",
             !.routeType = "DIRECT", !.fileFormat = "PLN_FSX"]

EmptyFlightplan ==
  [entries |-> <<>>, departureIdent |-> "", departureAiportName |-> "",
   departureParkingName |-> "", destinationIdent |-> "",
   destinationAiportName |-> "", cruisingAltitude |-> 10000,
   flightplanType |-> "VFR", routeType |-> "DIRECT",
   properties |-> NoProperties, fileFormat |-> "PLN_FSX"]

EmptyRoute ==
  [flightplan |-> EmptyFlightplan, legs |-> <<>>,
   departureLegs |-> EmptyProcedure, starLegs |-> EmptyProcedure,
   arrivalLegs |-> EmptyProcedure]

\* Flightplan::removeNoSaveEntries
RemoveNoSaveEntries(fp) ==
  [fp EXCEPT !.entries =
     SeqFilter(fp.entries, {i \in Rows(fp.entries) : At(fp.entries, i).noSave})]

\* Route::createRouteLegsFromFlightplan: the route is recreated from the
\* flight plan, one leg per entry and no procedure attached
CreateRouteLegsFromFlightplan(r) ==
  [r EXCEPT !.legs =
              [k \in 1 .. Len(r.flightplan.entries) |->
                 CreateFromDatabaseByEntry(r.flightplan.entries[k], r.flightplan, k > 1)],
            !.departureLegs = EmptyProcedure,
            !.starLegs = EmptyProcedure,
            !.arrivalLegs = EmptyProcedure]

\* Route::clearProcedureLegs: drop the legs whose tag is in the mask, at the
\* same indexes in the route (clearRoute) and in the flight plan (clearPlan)
ClearProcedureLegs(r, mask, clearRoute, clearPlan) ==
  LET drop == {i \in Rows(r.legs) : At(r.legs, i).proc \in mask}
  IN [r EXCEPT !.legs = IF clearRoute THEN SeqFilter(r.legs, drop) ELSE r.legs,
               !.flightplan.entries =
                  IF clearPlan THEN SeqFilter(r.flightplan.entries, drop)
                  ELSE r.flightplan.entries]

\* One procedure structure with the parts named in the mask removed
ClearProcedurePart(p, approachTags, transitionTags, mask) ==
  [approachFixIdent |-> IF approachTags \cap mask # {} THEN "" ELSE p.approachFixIdent,
   approachLegs |-> IF approachTags \cap mask # {} THEN <<>> ELSE p.approachLegs,
   transitionFixIdent |->
      IF transitionTags \cap mask # {} THEN "" ELSE p.transitionFixIdent,
   transitionLegs |-> IF transitionTags \cap mask # {} THEN <<>> ELSE p.transitionLegs]

\* Route::clearProcedures: reset the procedure structures named in the mask
ClearProcedures(r, mask) ==
  [r EXCEPT
     !.departureLegs = ClearProcedurePart(r.departureLegs, PROCEDURE_SID,
                                          PROCEDURE_SID_TRANSITION, mask),
     !.starLegs = ClearProcedurePart(r.starLegs, PROCEDURE_STAR,
                                     PROCEDURE_STAR_TRANSITION, mask),
     !.arrivalLegs = ClearProcedurePart(r.arrivalLegs,
                                        PROCEDURE_APPROACH \cup PROCEDURE_MISSED,
                                        PROCEDURE_TRANSITION, mask)]

\* Route::clearFlightplanProcedureProperties
ClearProcedureProperties(props, mask) ==
  [sidappr |-> IF PROCEDURE_SID \cap mask # {} THEN "" ELSE props.sidappr,
   sidtrans |-> IF PROCEDURE_SID_TRANSITION \cap mask # {} THEN "" ELSE props.sidtrans,
   star |-> IF PROCEDURE_STAR \cap mask # {} THEN "" ELSE props.star,
   startrans |-> IF PROCEDURE_STAR_TRANSITION \cap mask # {} THEN "" ELSE props.startrans,
   approach |-> IF (PROCEDURE_APPROACH \cup PROCEDURE_MISSED) \cap mask # {}
                THEN "" ELSE props.approach,
   transition |-> IF PROCEDURE_TRANSITION \cap mask # {} THEN "" ELSE props.transition]

\* Route::removeProcedureLegs: legs, entries, structures and properties
RemoveProcedureLegs(r, mask) ==
  LET r1 == ClearProcedureLegs(r, mask, TRUE, TRUE)
      r2 == ClearProcedures(r1, mask)
  IN [r2 EXCEPT !.flightplan.properties =
                   ClearProcedureProperties(r2.flightplan.properties, mask)]

\* Properties written for the attached procedure structures
PropertiesOf(r, old) ==
  [sidappr |-> IF IsEmptyProcedure(r.departureLegs) THEN old.sidappr
               ELSE r.departureLegs.approachFixIdent,
   sidtrans |-> IF IsEmptyProcedure(r.departureLegs) THEN old.sidtrans
                ELSE r.departureLegs.transitionFixIdent,
   star |-> IF IsEmptyProcedure(r.starLegs) THEN old.star
            ELSE r.starLegs.approachFixIdent,
   startrans |-> IF IsEmptyProcedure(r.starLegs) THEN old.startrans
                 ELSE r.starLegs.transitionFixIdent,
   approach |-> IF IsEmptyProcedure(r.arrivalLegs) THEN old.approach
                ELSE r.arrivalLegs.approachFixIdent,
   transition |-> IF IsEmptyProcedure(r.arrivalLegs) THEN old.transition
                  ELSE r.arrivalLegs.transitionFixIdent]

RECURSIVE InsertAllAt(_, _, _)
\* insert the elements of add into s, the first of them at index i
InsertAllAt(s, i, add) ==
  IF add = <<>> THEN s
  ELSE InsertAllAt(InsertAt(s, i, Head(add)), i + 1, Tail(add))

RECURSIVE InsertAllBeforeLast(_, _)
\* insert each element of add before the last element of s
InsertAllBeforeLast(s, add) ==
  IF add = <<>> THEN s
  ELSE InsertAllBeforeLast(InsertAt(s, Len(s) - 1, Head(add)), Tail(add))

\* The route legs and the flight plan entries of a list of procedure legs
ProcedureRouteLegs(s) == [k \in 1 .. Len(s) |-> ProcedureRouteLeg(s[k])]
ProcedureEntries(s) == [k \in 1 .. Len(s) |-> ProcedureEntry(s[k])]

\* Route::updateProcedureLegs: remove all procedure legs, then insert the
\* departure legs right after index 0 and the STAR and arrival legs right
\* before the last index, in the route and in the flight plan; write the
\* procedure properties
UpdateProcedureLegs(r, clearOldProcedureProperties) ==
  LET r0 == ClearProcedureLegs(r, PROCEDURE_ALL, TRUE, TRUE)
      dep == r0.departureLegs.approachLegs \o r0.departureLegs.transitionLegs
      arr == r0.starLegs.transitionLegs \o r0.starLegs.approachLegs
             \o r0.arrivalLegs.transitionLegs \o r0.arrivalLegs.approachLegs
      legs1 == InsertAllAt(r0.legs, 1, ProcedureRouteLegs(dep))
      ents1 == InsertAllAt(r0.flightplan.entries, 1, ProcedureEntries(dep))
      legs2 == InsertAllBeforeLast(legs1, ProcedureRouteLegs(arr))
      ents2 == InsertAllBeforeLast(ents1, ProcedureEntries(arr))
      old == IF clearOldProcedureProperties THEN NoProperties
             ELSE r0.flightplan.properties
  IN IF r0.legs = <<>> THEN r0
     ELSE [r0 EXCEPT !.legs = legs2,
                     !.flightplan.entries = ents2,
                     !.flightplan.properties = PropertiesOf(r0, old)]

RouteIsEmpty(r) == r.legs = <<>>
RouteSize(r) == Len(r.legs)
RouteFirst(r) == At(r.legs, 0)
RouteLast(r) == At(r.legs, Len(r.legs) - 1)
\* Route::hasValidDeparture
HasValidDeparture(r) == ~RouteIsEmpty(r) /\ RouteFirst(r).type = "AIRPORT"
\* Route::hasDepartureStart
HasDepartureStart(r) == HasValidDeparture(r) /\ RouteFirst(r).start # ""

\* ProcedureQuery::getLegsForFlightplanProperties: the procedures named in the
\* properties, for the departure airport (first leg) and the destination
\* airport (last leg); nothing is found for a leg that is no airport
LoadedDeparture(r) ==
  LET p == r.flightplan.properties
  IN IF RouteFirst(r).type = "AIRPORT" /\ (p.sidappr # "" \/ p.sidtrans # "")
     THEN DepartureProcedure(p.sidappr, p.sidtrans) ELSE EmptyProcedure
LoadedStar(r) ==
  LET p == r.flightplan.properties
  IN IF RouteLast(r).type = "AIRPORT" /\ p.star # ""
     THEN StarProcedure(p.star, p.startrans) ELSE EmptyProcedure
LoadedArrival(r) ==
  LET p == r.flightplan.properties
  IN IF RouteLast(r).type = "AIRPORT" /\ p.approach # ""
     THEN ArrivalProcedure(p.approach, p.transition) ELSE EmptyProcedure

----------------------------------------------------------------------------
(* Helpers of RouteController that work on the route *)

\* RouteController::eraseAirway
EraseAirway(r, row) ==
  IF 0 <= row /\ row < Len(r.flightplan.entries)
  THEN [r EXCEPT !.flightplan.entries[row + 1].airway = ""]
  ELSE r

\* RouteController::updateFlightplanFromWidgets
UpdateFlightplanFromWidgets(r, alt, typeIndex) ==
  [r EXCEPT !.flightplan.flightplanType = IF typeIndex = 0 THEN "IFR" ELSE "VFR",
            !.flightplan.cruisingAltitude = alt]

\* Variant of routeToFlightPlan that never clears the departure and the
\* destination of the plan
RouteToFlightPlanKeepsAirports(r) ==
  IF RouteIsEmpty(r) THEN [r EXCEPT !.flightplan = FlightplanClear(r.flightplan)]
  ELSE
    LET firstLeg == RouteFirst(r)
        lastLeg == RouteLast(r)
        fp == r.flightplan
        fp1 == IF firstLeg.type = "AIRPORT"
               THEN [fp EXCEPT !.departureAiportName = AirportName(firstLeg.ident),
                               !.departureIdent = firstLeg.ident]
               ELSE fp
        fp2 == IF lastLeg.type = "AIRPORT"
               THEN [fp1 EXCEPT !.destinationAiportName = AirportName(lastLeg.ident),
                                !.destinationIdent = lastLeg.ident]
               ELSE fp1
    IN [r EXCEPT !.flightplan = fp2]

\* RouteController::routeToFlightPlan
RouteToFlightPlan(r) ==
  IF RouteIsEmpty(r)
  THEN [r EXCEPT !.flightplan = FlightplanClear(r.flightplan)]
  ELSE
    LET firstLeg == RouteFirst(r)
        lastLeg == RouteLast(r)
        fp == r.flightplan
        fp1 == IF firstLeg.type = "AIRPORT"
               THEN [fp EXCEPT !.departureAiportName = AirportName(firstLeg.ident),
                               !.departureIdent = firstLeg.ident,
                               !.departureParkingName =
                                  IF firstLeg.start # "" THEN firstLeg.start
                                  ELSE fp.departureParkingName]
               ELSE [fp EXCEPT !.departureAiportName = "",
                               !.departureIdent = "",
                               !.departureParkingName = ""]
        fp2 == IF lastLeg.type = "AIRPORT"
               THEN [fp1 EXCEPT !.destinationAiportName = AirportName(lastLeg.ident),
                                !.destinationIdent = lastLeg.ident]
               ELSE [fp1 EXCEPT !.destinationAiportName = "",
                                !.destinationIdent = ""]
    IN [r EXCEPT !.flightplan = fp2]

\* RouteController::updateStartPositionBestRunway (undo = false)
UpdateStartPositionBestRunway(r, force) ==
  IF HasValidDeparture(r) /\ (force \/ ~HasDepartureStart(r))
  THEN RouteToFlightPlan([r EXCEPT !.legs[1].start = BestStart(RouteFirst(r).ident)])
  ELSE r

\* RouteController::loadProceduresFromFlightplan
LoadProceduresFromFlightplan(r, clearOldProcedureProperties) ==
  IF RouteIsEmpty(r) THEN r
  ELSE UpdateProcedureLegs([r EXCEPT !.departureLegs = LoadedDeparture(r),
                                     !.starLegs = LoadedStar(r),
                                     !.arrivalLegs = LoadedArrival(r)],
                           clearOldProcedureProperties)

\* Variant of affectedProcedures that looks at the first and the last index
\* only and not at the procedure the leg belongs to
AffectedByAirportIndex(r, index) ==
  (IF index = 0 THEN PROCEDURE_DEPARTURE ELSE {})
  \cup (IF index >= RouteSize(r) - 1 THEN PROCEDURE_ARRIVAL_ALL ELSE {})

\* Variant of affectedProcedures that removes all arrival procedures, the
\* STAR included, for an approach leg
AffectedWithStarForApproach(r, index) ==
  (IF index = 0 THEN PROCEDURE_DEPARTURE ELSE {})
  \cup (IF index >= RouteSize(r) - 1 THEN PROCEDURE_ARRIVAL_ALL ELSE {})
  \cup (IF index >= 0 /\ index < RouteSize(r)
        THEN LET tag == At(r.legs, index).proc
             IN (IF tag = "SID_TRANSITION" THEN PROCEDURE_SID_TRANSITION ELSE {})
                \cup (IF tag = "SID" THEN PROCEDURE_DEPARTURE ELSE {})
                \cup (IF tag = "STAR_TRANSITION" THEN PROCEDURE_STAR_TRANSITION ELSE {})
                \cup (IF tag = "STAR" THEN PROCEDURE_STAR_ALL ELSE {})
                \cup (IF tag = "TRANSITION" THEN PROCEDURE_TRANSITION ELSE {})
                \cup (IF tag \in {"APPROACH", "MISSED"} THEN PROCEDURE_ARRIVAL_ALL ELSE {})
        ELSE {})

\* The procedure types one index contributes in affectedProcedures
AffectedByIndex(r, index) ==
  (IF index = 0 THEN PROCEDURE_DEPARTURE ELSE {})
  \cup (IF index >= RouteSize(r) - 1 THEN PROCEDURE_ARRIVAL_ALL ELSE {})
  \cup (IF index >= 0 /\ index < RouteSize(r)
        THEN LET tag == At(r.legs, index).proc
             IN (IF tag = "SID_TRANSITION" THEN PROCEDURE_SID_TRANSITION ELSE {})
                \cup (IF tag = "SID" THEN PROCEDURE_DEPARTURE ELSE {})
                \cup (IF tag = "STAR_TRANSITION" THEN PROCEDURE_STAR_TRANSITION ELSE {})
                \cup (IF tag = "STAR" THEN PROCEDURE_STAR_ALL ELSE {})
                \cup (IF tag = "TRANSITION" THEN PROCEDURE_TRANSITION ELSE {})
                \cup (IF tag \in {"APPROACH", "MISSED"} THEN PROCEDURE_ARRIVAL ELSE {})
        ELSE {})

\* RouteController::affectedProcedures
AffectedProcedures(r, indexes) ==
  LET types == UNION {AffectedByIndex(r, index) : index \in indexes}
      sid == IF PROCEDURE_SID_TRANSITION \cap types # {}
                /\ r.departureLegs.approachLegs = <<>>
                /\ r.departureLegs.approachFixIdent # ""
             THEN PROCEDURE_SID ELSE {}
      star == IF PROCEDURE_STAR_TRANSITION \cap types # {}
                 /\ r.starLegs.approachLegs = <<>>
              THEN PROCEDURE_STAR_ALL ELSE {}
  IN types \cup sid \cup star

\* A snapshot that is the flight plan as it is, procedure entries included
PreChangeKeepsProcedures(r) == r.flightplan

\* RouteController::preChange: the flight plan without procedure entries
PreChange(r) == RemoveNoSaveEntries(r.flightplan)

\* The flight plan value two snapshots are compared by: the entries without
\* procedure entries and the plan-level data.  The file format is not part
\* of it: changeRouteUndoRedo sets it to the last saved format on purpose.
PlanValue(r) == [RemoveNoSaveEntries(r.flightplan) EXCEPT !.fileFormat = "any"]

\* RouteController::hasChanged
HasChanged == undoIndexClean = -1 \/ undoIndexClean # undoIndex

----------------------------------------------------------------------------
(* The undo stack: QUndoStack holding RouteCommand objects *)

\* rctype::RouteCmdType: EDIT is the id -1 that QUndoStack never merges
CommandTypes == {"EDIT", "DELETE", "MOVE", "ALTITUDE", "REVERSE"}

UndoState ==
  [stack |-> undoStack, index |-> stackIndex, clean |-> stackClean,
   undoIndex |-> undoIndex, undoIndexClean |-> undoIndexClean]

SetUndoState(u) ==
  /\ undoStack' = u.stack
  /\ stackIndex' = u.index
  /\ stackClean' = u.clean
  /\ undoIndex' = u.undoIndex
  /\ undoIndexClean' = u.undoIndexClean

\* QUndoStack::push tries to merge with the command below the index if both
\* have the same id other than -1 and the stack is not in its clean state
WouldMerge(u, type) ==
  /\ u.index > 0
  /\ u.stack[u.index].type # "EDIT"
  /\ u.stack[u.index].type = type
  /\ u.index # (IF u.clean > u.index THEN -1 ELSE u.clean)

\* Variant of undoMerge that leaves the undo index as postChange has set it
UndoMergeKeepsIndex(u) == u

\* RouteController::undoMerge, called by RouteCommand::mergeWith
UndoMerge(u) == [u EXCEPT !.undoIndex = u.undoIndex - 1]

\* QUndoStack::push: drop the commands above the index, then merge into the
\* command below it or append, evicting the oldest beyond the undo limit
QUndoStackPush(u, cmd) ==
  LET list == SubSeq(u.stack, 1, u.index)
      clean == IF u.clean > u.index THEN -1 ELSE u.clean
  IN IF WouldMerge(u, cmd.type)
     THEN UndoMerge([u EXCEPT !.stack = [list EXCEPT ![u.index].after = cmd.after],
                              !.clean = clean])
     ELSE LET appended == Append(list, cmd)
              del == IF Len(appended) > ROUTE_UNDO_LIMIT
                     THEN Len(appended) - ROUTE_UNDO_LIMIT ELSE 0
          IN [u EXCEPT !.stack = SubSeq(appended, del + 1, Len(appended)),
                       !.index = u.index - del + 1,
                       !.clean = IF clean = -1 THEN -1
                                 ELSE IF clean < del THEN -1 ELSE clean - del]

\* Variant of postChange that keeps undoIndexClean when the clean state is
\* above the undo index
PostChangeKeepsClean(u, before, type, r) ==
  QUndoStackPush([u EXCEPT !.undoIndex = u.undoIndex + 1],
                 [before |-> before, after |-> PreChange(r), type |-> type])

\* RouteController::postChange for a command created by preChange
PostChange(u, before, type, r) ==
  LET cmd == [before |-> before, after |-> PreChange(r), type |-> type]
      u1 == [u EXCEPT !.undoIndexClean =
                         IF u.undoIndex < u.undoIndexClean THEN -1
                         ELSE u.undoIndexClean,
                      !.undoIndex = u.undoIndex + 1]
  IN QUndoStackPush(u1, cmd)

\* Cruise altitude and type widgets as updateTableModel leaves them
SyncWidgets(r) ==
  IF r.flightplan.entries # <<>>
  THEN /\ spinBoxRouteAlt' = r.flightplan.cruisingAltitude
       /\ comboBoxRouteType' = (IF r.flightplan.flightplanType = "IFR" THEN 0 ELSE 1)
  ELSE UNCHANGED widgetVars

\* History of the last non-merged change: stage 1 after the change,
\* 2 after an undo that directly follows it, 3 after the redo following that
NoTrack == [stage |-> 0, value |-> "none"]
TrackChange(u, type, r) ==
  IF WouldMerge([u EXCEPT !.undoIndex = u.undoIndex + 1], type) THEN NoTrack
  ELSE [stage |-> 1, value |-> PlanValue(r)]

\* An undoable change is complete: the route is r, the command with the
\* snapshot taken by preChange is pushed
Commit(r, before, type, opRecord) ==
  /\ undoIndex < MaxUndoIndex
  /\ route' = r
  /\ SetUndoState(PostChange(UndoState, before, type, r))
  /\ UNCHANGED <<routeNetworkQueries, approachTree>>
  /\ op' = opRecord
  /\ track' = TrackChange(UndoState, type, r)
  /\ UNCHANGED <<fileVars, saved>>

\* RouteController::changeRouteUndoRedo
ChangeRouteUndoRedo(r, newFlightplan, fileFormat) ==
  LET r1 == [r EXCEPT !.flightplan = newFlightplan]
      r2 == [r1 EXCEPT !.flightplan.fileFormat = fileFormat]
      r3 == CreateRouteLegsFromFlightplan(r2)
  IN LoadProceduresFromFlightplan(r3, TRUE)

\* Variant of changeRouteUndo without the controller's own undo index
ChangeRouteUndoKeepsIndex ==
  /\ stackIndex > 0
  /\ LET r == ChangeRouteUndoRedo(route, undoStack[stackIndex].before, routeFileFormat)
     IN /\ route' = r
        /\ SyncWidgets(r)
  /\ stackIndex' = stackIndex - 1
  /\ UNCHANGED <<routeNetworkQueries, approachTree>>
  /\ op' = [name |-> "undo"]
  /\ track' = IF track.stage = 1 THEN [track EXCEPT !.stage = 2] ELSE NoTrack
  /\ UNCHANGED <<undoStack, stackClean, undoIndex, undoIndexClean, fileVars,
                 routeAltDelayTimer, saved>>

\* QUndoStack::undo, RouteCommand::undo and RouteController::changeRouteUndo
ChangeRouteUndo ==
  /\ stackIndex > 0
  /\ LET r == ChangeRouteUndoRedo(route, undoStack[stackIndex].before, routeFileFormat)
     IN /\ route' = r
        /\ SyncWidgets(r)
  /\ undoIndex' = undoIndex - 1
  /\ stackIndex' = stackIndex - 1
  /\ UNCHANGED <<routeNetworkQueries, approachTree>>
  /\ op' = [name |-> "undo"]
  /\ track' = IF track.stage = 1 THEN [track EXCEPT !.stage = 2] ELSE NoTrack
  /\ UNCHANGED <<undoStack, stackClean, undoIndexClean, fileVars,
                 routeAltDelayTimer, saved>>

\* Variant of changeRouteRedo without the controller's own undo index
ChangeRouteRedoKeepsIndex ==
  /\ stackIndex < Len(undoStack)
  /\ LET r == ChangeRouteUndoRedo(route, undoStack[stackIndex + 1].after, routeFileFormat)
     IN /\ route' = r
        /\ SyncWidgets(r)
  /\ stackIndex' = stackIndex + 1
  /\ UNCHANGED <<routeNetworkQueries, approachTree>>
  /\ op' = [name |-> "redo"]
  /\ track' = IF track.stage = 2 THEN [track EXCEPT !.stage = 3] ELSE NoTrack
  /\ UNCHANGED <<undoStack, stackClean, undoIndex, undoIndexClean, fileVars,
                 routeAltDelayTimer, saved>>

\* QUndoStack::redo, RouteCommand::redo and RouteController::changeRouteRedo
ChangeRouteRedo ==
  /\ stackIndex < Len(undoStack)
  /\ LET r == ChangeRouteUndoRedo(route, undoStack[stackIndex + 1].after, routeFileFormat)
     IN /\ route' = r
        /\ SyncWidgets(r)
  /\ undoIndex' = undoIndex + 1
  /\ stackIndex' = stackIndex + 1
  /\ UNCHANGED <<routeNetworkQueries, approachTree>>
  /\ op' = [name |-> "redo"]
  /\ track' = IF track.stage = 2 THEN [track EXCEPT !.stage = 3] ELSE NoTrack
  /\ UNCHANGED <<undoStack, stackClean, undoIndexClean, fileVars,
                 routeAltDelayTimer, saved>>

----------------------------------------------------------------------------
(* The approach tree of ApproachTreeController                             *)
(* (src/src/info/approachtreecontroller.cpp)                               *)

\* Airports the tree can be asked to show: 1 has an approach with a
\* transition, 2 has no approach.  -1 is the id of no airport.
TreeAirports == {1, 2}

\* maptypes::MapApproachRef (the runway end id is carried along only and is
\* left out)
MapApproachRef(airportId, approachId, transitionId, legId) ==
  [airportId |-> airportId, approachId |-> approachId,
   transitionId |-> transitionId, legId |-> legId]
EmptyRef == MapApproachRef(-1, -1, -1, -1)

\* MapApproachRef::isLeg, isApproachOnly, isApproachAndTransition,
\* isApproachOrTransition
IsLeg(ref) == ref.legId # -1
IsApproachOnly(ref) == ref.approachId # -1 /\ ref.transitionId = -1
IsApproachAndTransition(ref) == ref.approachId # -1 /\ ref.transitionId # -1
IsApproachOrTransition(ref) == ref.approachId # -1 \/ ref.transitionId # -1

\* InfoQuery::getApproachInformation: approach ids of an airport
GetApproachInformation(airportId) == IF airportId = 1 THEN <<1>> ELSE <<>>
\* InfoQuery::getTransitionInformation: transition ids of an approach
GetTransitionInformation(approachId) == IF approachId = 1 THEN <<1>> ELSE <<>>

\* ApproachQuery::getApproachLegs and getTransitionLegs: found is FALSE for
\* the null pointer
NoLegs == [found |-> FALSE, ref |-> EmptyRef, approachLegs |-> <<>>, transitionLegs |-> <<>>]
GetApproachLegs(airportId, approachId) ==
  IF airportId = 1 /\ approachId = 1
  THEN [found |-> TRUE, ref |-> MapApproachRef(1, 1, -1, -1),
        approachLegs |-> <<1>>, transitionLegs |-> <<>>]
  ELSE NoLegs
GetTransitionLegs(airportId, transitionId) ==
  IF airportId = 1 /\ transitionId = 1
  THEN [found |-> TRUE, ref |-> MapApproachRef(1, 1, 1, -1),
        approachLegs |-> <<1>>, transitionLegs |-> <<2>>]
  ELSE NoLegs

\* A QTreeWidgetItem: its type, its parent (0: the invisible root, else the
\* position of the parent in the list of items) and whether it is disabled.
\* The two-argument constructor leaves the type at QTreeWidgetItem::Type = 0.
TreeItem(type, parent, disabled) == [type |-> type, parent |-> parent, disabled |-> disabled]

\* The controller after its constructor: no airport, an empty tree
InitApproachTree ==
  [currentAirport |-> -1,
   approachViewMode |-> FALSE,
   approachViewModeRef |-> EmptyRef,
   itemIndex |-> <<>>,
   itemLoadedIndex |-> {},
   items |-> <<>>,
   selected |-> 0,
   expanded |-> {},
   recentTreeState |-> [a \in {-1} \cup TreeAirports |-> <<>>],
   recentAirports |-> {},
   handler |-> "constructor",
   menuItem |-> 0,
   outside |-> {},
   terminated |-> FALSE]

\* itemIndex.append(ref) followed by new QTreeWidgetItem(..., itemIndex.size() - 1)
\* and addChild: buildApprItem, buildTransItem, buildApprLegItem, buildTransLegItem
AppendItem(t, ref, parent) ==
  [t EXCEPT !.itemIndex = Append(t.itemIndex, ref),
            !.items = Append(t.items, TreeItem(Len(t.itemIndex), parent, FALSE))]

RECURSIVE AppendLegItems(_, _, _, _, _)
\* one item per leg id in order
AppendLegItems(t, ref, transitionId, legIds, parent) ==
  IF legIds = <<>> THEN t
  ELSE AppendLegItems(
         AppendItem(t, MapApproachRef(ref.airportId, ref.approachId, transitionId,
                                      Head(legIds)), parent),
         ref, transitionId, Tail(legIds), parent)

\* ApproachTreeController::addApproachLegs
AddApproachLegs(t, legs, parent) ==
  IF legs.found THEN AppendLegItems(t, legs.ref, -1, legs.approachLegs, parent) ELSE t

\* ApproachTreeController::addTransitionLegs
AddTransitionLegs(t, legs, parent) ==
  IF legs.found
  THEN AppendLegItems(t, legs.ref, legs.ref.transitionId, legs.transitionLegs, parent)
  ELSE t

RECURSIVE AppendTransItems(_, _, _, _)
\* the transitions of one approach in fillApproachTreeWidget
AppendTransItems(t, approachId, transitionIds, apprItem) ==
  IF transitionIds = <<>> THEN t
  ELSE AppendTransItems(
         AppendItem(t, MapApproachRef(t.currentAirport, approachId, Head(transitionIds), -1),
                    apprItem),
         approachId, Tail(transitionIds), apprItem)

RECURSIVE AppendApprItems(_, _)
\* the approaches of the airport in fillApproachTreeWidget
AppendApprItems(t, approachIds) ==
  IF approachIds = <<>> THEN t
  ELSE LET t1 == AppendItem(t, MapApproachRef(t.currentAirport, Head(approachIds), -1, -1), 0)
           t2 == AppendTransItems(t1, Head(approachIds),
                                  GetTransitionInformation(Head(approachIds)), Len(t1.items))
       IN AppendApprItems(t2, Tail(approachIds))

\* ApproachTreeController::fillApproachTreeWidget
FillApproachTreeWidget(t) ==
  LET t0 == [t EXCEPT !.items = <<>>, !.itemIndex = <<>>, !.itemLoadedIndex = {},
                      !.selected = 0, !.expanded = {}]
      ref == t.approachViewModeRef
      t1 == IF t.currentAirport = -1 THEN t0
            ELSE IF t.approachViewMode
            THEN (IF IsApproachOnly(ref)
                  THEN AddApproachLegs(t0, GetApproachLegs(t.currentAirport, ref.approachId), 0)
                  ELSE IF IsApproachAndTransition(ref)
                  THEN LET legs == GetTransitionLegs(t.currentAirport, ref.transitionId)
                       IN AddApproachLegs(AddTransitionLegs(t0, legs, 0), legs, 0)
                  ELSE t0)
            ELSE AppendApprItems(t0, GetApproachInformation(t.currentAirport))
  IN IF t1.itemIndex = <<>>
     THEN [t1 EXCEPT !.items =
             <<TreeItem(IF t.currentAirport = -1 THEN 0 ELSE -1, 0, TRUE)>>]
     ELSE t1

\* The items whose parent is item i (0: the root), in order
Children(t, i) ==
  LET RECURSIVE From(_)
      From(k) == IF k > Len(t.items) THEN <<>>
                 ELSE (IF t.items[k].parent = i THEN <<k>> ELSE <<>>) \o From(k + 1)
  IN From(1)

\* item->parent(), 0 for the null pointer and for a top level item
ParentOf(t, i) == IF i = 0 THEN 0 ELSE t.items[i].parent

\* itemIndex.at(type): an access outside the bounds of the vector is noted,
\* the value it reads is undefined
InBounds(access) == 0 <= access.index /\ access.index < access.size
Accessed(t, types) ==
  [t EXCEPT !.outside = @ \cup {a \in {[index |-> type, size |-> Len(t.itemIndex)] :
                                          type \in types} : ~InBounds(a)}]
ItemIndexAt(t, type, undefinedRef) ==
  IF 0 <= type /\ type < Len(t.itemIndex) THEN t.itemIndex[type + 1] ELSE undefinedRef

\* ApproachTreeController::updateApproachItem: reads the reference of every
\* child and rewrites course and distance texts
UpdateApproachItem(t, apprItem) ==
  IF apprItem = 0 THEN t
  ELSE Accessed(t, {t.items[Children(t, apprItem)[k]].type :
                      k \in 1 .. Len(Children(t, apprItem))})

\* ApproachTreeController::itemSelectionChanged
ItemSelectionChanged(t, undefinedRef) ==
  IF t.selected = 0 THEN t
  ELSE LET item == t.items[t.selected]
           ref == ItemIndexAt(t, item.type, undefinedRef)
           t1 == Accessed(t, {item.type})
       IN IF ~t.approachViewMode /\ IsApproachAndTransition(ref)
          THEN UpdateApproachItem(t1, IF IsLeg(ref)
                                      THEN ParentOf(t, ParentOf(t, t.selected))
                                      ELSE ParentOf(t, t.selected))
          ELSE t1

\* ApproachTreeController::itemExpanded for item i
ItemExpanded(t, i, undefinedRef) ==
  LET type == t.items[i].type
      ref == ItemIndexAt(t, type, undefinedRef)
      t1 == Accessed(t, {type})
      loaded == [t1 EXCEPT !.itemLoadedIndex = @ \cup {type}]
  IN IF t.approachViewMode \/ type \in t.itemLoadedIndex THEN t
     ELSE IF ref.legId # -1 THEN t1
     ELSE IF ref.approachId # -1 /\ ref.transitionId = -1
     THEN AddApproachLegs(loaded, GetApproachLegs(t.currentAirport, ref.approachId), i)
     ELSE IF ref.approachId # -1 /\ ref.transitionId # -1
     THEN AddTransitionLegs(loaded, GetTransitionLegs(t.currentAirport, ref.transitionId), i)
     ELSE t1

\* QTreeWidgetItem::setExpanded(true): the view emits itemExpanded for an
\* item that was collapsed; a disabled item without children stays as it is
SetExpanded(t, i, undefinedRef) ==
  IF i \in t.expanded \/ t.items[i].disabled THEN t
  ELSE ItemExpanded([t EXCEPT !.expanded = @ \cup {i}], i, undefinedRef)

RECURSIVE SetExpandedAll(_, _, _)
SetExpandedAll(t, is, undefinedRef) ==
  IF is = <<>> THEN t
  ELSE SetExpandedAll(SetExpanded(t, Head(is), undefinedRef), Tail(is), undefinedRef)

\* QTreeWidgetItem::setSelected(true): a disabled item is not selectable
SetSelected(t, i, undefinedRef) ==
  IF i = 0 \/ t.items[i].disabled \/ t.selected = i THEN t
  ELSE ItemSelectionChanged([t EXCEPT !.selected = i], undefinedRef)

\* item->isSelected() of a child that is a leg, in saveTreeViewState
LegChildSelected(t, i) ==
  \E k \in 1 .. Len(Children(t, i)) :
    LET child == Children(t, i)[k]
    IN ItemIndexAt(t, t.items[child].type, EmptyRef).legId # -1 /\ t.selected = child

RECURSIVE SaveScan(_, _)
\* the loop of saveTreeViewState over the item stack: two bits per item that
\* is no leg, expanded and selected
SaveScan(t, itemStack) ==
  IF itemStack = <<>> THEN <<>>
  ELSE LET i == Head(itemStack)
           type == t.items[i].type
       IN IF type < Len(t.itemIndex) /\ ItemIndexAt(t, type, EmptyRef).legId # -1
          THEN SaveScan(t, Tail(itemStack))
          ELSE <<i \in t.expanded, t.selected = i \/ LegChildSelected(t, i)>>
               \o SaveScan(t, Tail(itemStack) \o Children(t, i))

\* ApproachTreeController::saveTreeViewState
SaveTreeViewState(t) ==
  IF t.itemIndex # <<>> /\ ~t.approachViewMode THEN SaveScan(t, Children(t, 0)) ELSE <<>>

RECURSIVE RestoreScan(_, _, _, _)
\* the first loop of restoreTreeViewState: the items to expand and the
\* selected item (0: none) for the bits of state from itemIdx on
RestoreScan(t, state, itemStack, itemIdx) ==
  IF itemStack = <<>> THEN [itemsToExpand |-> <<>>, selectedItem |-> 0]
  ELSE LET i == Head(itemStack)
       IN IF itemIdx < Len(state) - 1
          THEN LET rest == RestoreScan(t, state, Tail(itemStack) \o Children(t, i),
                                       itemIdx + 2)
               IN [itemsToExpand |-> (IF state[itemIdx + 1] THEN <<i>> ELSE <<>>)
                                       \o rest.itemsToExpand,
                   selectedItem |-> IF rest.selectedItem # 0 THEN rest.selectedItem
                                    ELSE IF state[itemIdx + 2] THEN i ELSE 0]
          ELSE RestoreScan(t, state, Tail(itemStack), itemIdx)

\* ApproachTreeController::restoreTreeViewState
RestoreTreeViewState(t, state, undefinedRef) ==
  IF state = <<>> THEN t
  ELSE LET found == RestoreScan(t, state, Children(t, 0), 0)
       IN SetSelected(SetExpandedAll(t, found.itemsToExpand, undefinedRef),
                      found.selectedItem, undefinedRef)

\* QMap::insert on recentTreeState
InsertRecentTreeState(t, airportId, state) ==
  [t EXCEPT !.recentTreeState[airportId] = state,
            !.recentAirports = @ \cup {airportId}]

\* ApproachTreeController::enableViewMode
EnableViewMode(t, ref) ==
  FillApproachTreeWidget(
    [InsertRecentTreeState(t, t.currentAirport, SaveTreeViewState(t))
       EXCEPT !.approachViewModeRef = ref, !.approachViewMode = TRUE])

\* ApproachTreeController::disableViewMode
DisableViewMode(t, undefinedRef) ==
  LET t1 == FillApproachTreeWidget([t EXCEPT !.approachViewModeRef = EmptyRef,
                                             !.approachViewMode = FALSE])
  IN IF t.currentAirport \in t.recentAirports
     THEN RestoreTreeViewState(t1, t.recentTreeState[t.currentAirport], undefinedRef)
     ELSE t1

\* ApproachTreeController::showEntry: reads the reference and emits showPos
\* or showRect
ShowEntry(t, i) == IF i = 0 THEN t ELSE Accessed(t, {t.items[i].type})

\* What a handler leaves: t1 if every access was inside the vector; otherwise
\* the behaviour is undefined and the program ends there (crash) or goes on
\* with the reference it has read
HandlerDone(name, t1, crash) ==
  /\ ~approachTree.terminated
  /\ crash => t1.outside # {}
  /\ approachTree' = IF crash
                     THEN [approachTree EXCEPT !.handler = name,
                                               !.menuItem = t1.menuItem,
                                               !.outside = t1.outside,
                                               !.terminated = TRUE]
                     ELSE [t1 EXCEPT !.handler = name]
  /\ UNCHANGED routeVars

\* The references an access outside the vector can read
UndefinedRefs == {EmptyRef, MapApproachRef(1, 1, 1, -1)}

\* The handler starts: no access yet
Started(t) == [t EXCEPT !.outside = {}, !.menuItem = 0]

\* Settings a session can start with: the airport, the view mode with its
\* reference, and the bits of the tree state
SettingsRefs == {EmptyRef, MapApproachRef(1, 1, -1, -1), MapApproachRef(1, 1, 1, -1)}
SettingsStates == {<<>>, <<TRUE, FALSE, FALSE, TRUE>>}

\* ApproachTreeController::restoreState, called once after the constructor
RestoreState ==
  \E airportId \in {-1} \cup TreeAirports, mode \in BOOLEAN,
     ref \in SettingsRefs, state \in SettingsStates,
     undefinedRef \in UndefinedRefs, crash \in BOOLEAN :
    LET t0 == [Started(approachTree) EXCEPT !.currentAirport = airportId,
                                            !.approachViewMode = mode,
                                            !.approachViewModeRef = ref]
        t1 == InsertRecentTreeState(FillApproachTreeWidget(t0), airportId, state)
        t2 == IF mode THEN t1 ELSE RestoreTreeViewState(t1, state, undefinedRef)
    IN /\ approachTree.handler = "constructor"
       /\ mode \/ ref = EmptyRef
       /\ HandlerDone("restoreState", t2, crash)

\* ApproachTreeController::showApproaches
ShowApproaches ==
  \E airportId \in TreeAirports, undefinedRef \in UndefinedRefs, crash \in BOOLEAN :
    LET t == Started(approachTree)
        t1 == IF t.currentAirport = airportId /\ ~t.approachViewMode THEN t
              ELSE IF t.approachViewMode
              THEN DisableViewMode([t EXCEPT !.currentAirport = airportId], undefinedRef)
              ELSE LET t2 == IF t.currentAirport # -1
                             THEN InsertRecentTreeState(t, t.currentAirport,
                                                        SaveTreeViewState(t))
                             ELSE t
                       t3 == FillApproachTreeWidget([t2 EXCEPT !.currentAirport = airportId])
                   IN RestoreTreeViewState(t3, t3.recentTreeState[airportId], undefinedRef)
    IN /\ approachTree.handler # "constructor"
       /\ HandlerDone("showApproaches", t1, crash)

\* The user selects an item: ApproachTreeController::itemSelectionChanged.
\* The view selects enabled items only.
SelectItem ==
  \E i \in 1 .. Len(approachTree.items),
     undefinedRef \in UndefinedRefs, crash \in BOOLEAN :
    /\ ~approachTree.items[i].disabled
    /\ approachTree.selected # i
    /\ HandlerDone("itemSelectionChanged",
                   ItemSelectionChanged([Started(approachTree) EXCEPT !.selected = i],
                                        undefinedRef),
                   crash)

\* ApproachTreeController::itemDoubleClicked, taken for enabled items
ItemDoubleClicked ==
  \E i \in 1 .. Len(approachTree.items), crash \in BOOLEAN :
    /\ ~approachTree.items[i].disabled
    /\ HandlerDone("itemDoubleClicked", ShowEntry(Started(approachTree), i), crash)

\* The user expands an approach or a transition:
\* ApproachTreeController::itemExpanded
ExpandItem ==
  \E i \in 1 .. Len(approachTree.items),
     undefinedRef \in UndefinedRefs, crash \in BOOLEAN :
    /\ ~approachTree.items[i].disabled
    /\ ~approachTree.approachViewMode
    /\ i \notin approachTree.expanded
    /\ ~IsLeg(ItemIndexAt(approachTree, approachTree.items[i].type, EmptyRef))
    /\ HandlerDone("itemExpanded", SetExpanded(Started(approachTree), i, undefinedRef), crash)

\* The actions of the context menu
MenuActions ==
  {"none", "ExpandAll", "CollapseAll", "Clear", "Select", "Unselect", "Show"}

\* ApproachTreeController::contextMenu: item is the item at the position
\* of the menu, disabled or not (0: no item there), action the entry the
\* user picks
ContextMenu ==
  \E item \in 0 .. Len(approachTree.items), action \in MenuActions,
     undefinedRef \in UndefinedRefs, crash \in BOOLEAN :
    LET t == Started(approachTree)
        read == item # 0 /\ ~t.approachViewMode
        ref == IF read THEN ItemIndexAt(t, t.items[item].type, undefinedRef) ELSE EmptyRef
        t1 == IF read THEN Accessed(t, {t.items[item].type}) ELSE t
        t2 == CASE action = "ExpandAll" -> SetExpandedAll(t1, Children(t1, 0), undefinedRef)
                [] action = "CollapseAll" -> [t1 EXCEPT !.expanded = {}]
                [] action = "Clear" -> [t1 EXCEPT !.selected = 0]
                [] action = "Select" -> EnableViewMode(t1, ref)
                [] action = "Unselect" -> DisableViewMode(t1, undefinedRef)
                [] action = "Show" -> ShowEntry(t1, item)
                [] OTHER -> t1
    IN /\ approachTree.handler # "constructor"
       /\ action \in {"ExpandAll", "CollapseAll"} => ~t.approachViewMode
       /\ action = "Clear" => t.selected # 0
       /\ action = "Select" => item # 0 /\ ~t.approachViewMode
       /\ action = "Unselect" => t.approachViewMode
       /\ action = "Show" => item # 0
       /\ (read /\ InBounds([index |-> t.items[item].type, size |-> Len(t.itemIndex)]))
            => undefinedRef = EmptyRef
       /\ HandlerDone("contextMenu", [t2 EXCEPT !.menuItem = item], crash)

----------------------------------------------------------------------------
(* New, load and save *)

HasAirway(fp) == \E k \in 1 .. Len(fp.entries) : fp.entries[k].airway # ""

\* Route::updateAirwaysAndAltitude: the route type follows the airways used,
\* the cruise altitude is raised to what the airways need
UpdateAirwaysAndAltitude(r, adjustRouteAltitude, adjustRouteType) ==
  [r EXCEPT
     !.flightplan.routeType =
        IF adjustRouteType
        THEN (IF HasAirway(r.flightplan) THEN "LOW_ALTITUDE" ELSE "DIRECT")
        ELSE r.flightplan.routeType,
     !.flightplan.cruisingAltitude =
        IF adjustRouteAltitude
        THEN (IF HasAirway(r.flightplan) THEN 25000 ELSE 10000)
        ELSE r.flightplan.cruisingAltitude]

\* RouteController::clearRoute, the part that works on the route
ClearRoute(r, alt, typeIndex) ==
  LET r1 == RemoveProcedureLegs(r, PROCEDURE_ALL)
      r2 == [r1 EXCEPT !.flightplan = FlightplanClear(r1.flightplan)]
      r3 == [r2 EXCEPT !.flightplan.properties = NoProperties, !.legs = <<>>]
  IN UpdateFlightplanFromWidgets(r3, alt, typeIndex)

\* Variant of clearRoute that clears the stack and leaves the controller's
\* own clean index as it is
ClearedUndoStateKeepsClean ==
  [stack |-> <<>>, index |-> 0, clean |-> 0, undoIndex |-> 0,
   undoIndexClean |-> undoIndexClean]

\* undoStack->clear(); undoIndex = 0; undoIndexClean = 0
ClearedUndoState ==
  [stack |-> <<>>, index |-> 0, clean |-> 0, undoIndex |-> 0, undoIndexClean |-> 0]

\* State after the constructor and restoreState without a file to reload
Init ==
  /\ spinBoxRouteAlt = 10000
  /\ comboBoxRouteType = 0
  /\ route = UpdateFlightplanFromWidgets(EmptyRoute, 10000, 0)
  /\ undoStack = <<>>
  /\ stackIndex = 0
  /\ stackClean = 0
  /\ undoIndex = 0
  /\ undoIndexClean = 0
  /\ routeFilename = ""
  /\ routeFileFormat = "PLN_FSX"
  /\ fileDeparture = ""
  /\ fileDestination = ""
  /\ fileIfrVfr = "VFR"
  /\ routeAltDelayTimer = FALSE
  /\ routeNetworkQueries = TRUE
  /\ op = [name |-> "init"]
  /\ saved = PlanValue(UpdateFlightplanFromWidgets(EmptyRoute, 10000, 0))
  /\ track = NoTrack
  /\ approachTree = InitApproachTree

\* RouteController::newFlightplan
NewFlightplan ==
  LET r == CreateRouteLegsFromFlightplan(
             UpdateFlightplanFromWidgets(
               ClearRoute(route, spinBoxRouteAlt, comboBoxRouteType),
               spinBoxRouteAlt, comboBoxRouteType))
  IN /\ route' = r
     /\ SetUndoState(ClearedUndoState)
     /\ routeFilename' = ""
     /\ routeFileFormat' = "PLN_FSX"
     /\ fileDeparture' = ""
     /\ fileDestination' = ""
     /\ fileIfrVfr' = "VFR"
     /\ SyncWidgets(r)
     /\ UNCHANGED <<routeNetworkQueries, approachTree>>
     /\ op' = [name |-> "newFlightplan", hadLegs |-> ~RouteIsEmpty(route),
                hadCommands |-> undoStack # <<>>, wasChanged |-> HasChanged]
     /\ saved' = PlanValue(r)
     /\ track' = NoTrack
     /\ UNCHANGED routeAltDelayTimer

\* The flight plan files that can be opened; "bad.pln" cannot be read
Filenames == {"a.pln", "b.pln", "c.fms", "bad.pln"}

PlanEntries(idents, airways) ==
  [k \in 1 .. Len(idents) |-> [Entry(idents[k]) EXCEPT !.airway = airways[k]]]

\* FlightplanIO::load: what the file holds
FileFlightplan(filename) ==
  IF filename = "a.pln"
  THEN [EmptyFlightplan EXCEPT
          !.entries = PlanEntries(<<"KA", "W1", "W2", "KB">>, <<"", "", "V1", "">>),
          !.departureIdent = "KA", !.departureAiportName = "Alpha",
          !.departureParkingName = "09",
          !.destinationIdent = "KB", !.destinationAiportName = "Bravo",
          !.cruisingAltitude = 25000, !.flightplanType = "IFR",
          !.routeType = "LOW_ALTITUDE",
          !.properties = [NoProperties EXCEPT !.approach = "ILS", !.transition = "TRA"]]
  ELSE IF filename = "b.pln"
  THEN [EmptyFlightplan EXCEPT
          !.entries = PlanEntries(<<"KA", "KB">>, <<"", "">>),
          !.departureIdent = "KA", !.departureAiportName = "Alpha",
          !.destinationIdent = "KB", !.destinationAiportName = "Bravo",
          !.fileFormat = "PLN_FS9"]
  ELSE IF filename = "e.flp"
  THEN [EmptyFlightplan EXCEPT
          !.entries = PlanEntries(<<"KA", "W1", "W2", "KB">>, <<"", "", "V1", "">>),
          !.departureIdent = "KA", !.departureAiportName = "Alpha",
          !.destinationIdent = "KB", !.destinationAiportName = "Bravo",
          !.fileFormat = "FLP"]
  ELSE [EmptyFlightplan EXCEPT
          !.entries = PlanEntries(<<"KB", "W1", "KA">>, <<"", "", "">>),
          !.departureIdent = "KB", !.departureAiportName = "Bravo",
          !.destinationIdent = "KA", !.destinationAiportName = "Alpha",
          !.cruisingAltitude = 0,
          !.properties = [NoProperties EXCEPT !.sidappr = "SID1", !.star = "STAR1",
                                              !.approach = "ILS"],
          !.fileFormat = "FMS11"]

\* RouteController::loadFlightplan(flightplan, filename, quiet, changed,
\* adjustAltitude) for the formats other than FLP
LoadFlightplanInternal(r, flightplan, alt, typeIndex, adjustAltitudeArg) ==
  LET fms == flightplan.fileFormat = "FMS11"
      fromWidgets == [flightplan EXCEPT
                        !.flightplanType = IF typeIndex = 0 THEN "IFR" ELSE "VFR",
                        !.cruisingAltitude =
                           IF flightplan.cruisingAltitude > 0
                           THEN flightplan.cruisingAltitude ELSE alt]
      fp == IF fms THEN fromWidgets ELSE flightplan
      adjustAltitude == adjustAltitudeArg \/ (fms /\ ~(flightplan.cruisingAltitude > 0))
      r1 == ClearRoute(r, alt, typeIndex)
      r2 == [r1 EXCEPT !.flightplan = fp]
      r3 == CreateRouteLegsFromFlightplan(r2)
      r4 == LoadProceduresFromFlightplan(r3, TRUE)
      r5 == UpdateAirwaysAndAltitude(r4, adjustAltitude, fms)
  IN UpdateStartPositionBestRunway(r5, fp.fileFormat # "PLN_FSX")

\* Variant of the failed load in which the route is cleared before the file
\* is read
LoadFailedAfterClear(name) ==
  /\ route' = ClearRoute(route, spinBoxRouteAlt, comboBoxRouteType)
  /\ SetUndoState(ClearedUndoState)
  /\ routeFilename' = ""
  /\ UNCHANGED <<routeNetworkQueries, approachTree>>
  /\ op' = [name |-> name, ret |-> FALSE, thrown |-> TRUE, filename |-> "bad.pln"]
  /\ track' = NoTrack
  /\ UNCHANGED <<routeFileFormat, fileDeparture, fileDestination, fileIfrVfr,
                 widgetVars, routeAltDelayTimer, saved>>

\* FlightplanIO::load has thrown in loadFlightplan(filename) or in
\* insertFlightplan: the catch block shows the error and returns false
LoadFailed(name) ==
  /\ UNCHANGED <<routeNetworkQueries, approachTree>>
  /\ op' = [name |-> name, ret |-> FALSE, thrown |-> TRUE, filename |-> "bad.pln"]
  /\ track' = NoTrack
  /\ UNCHANGED <<route, undoVars, fileVars, widgetVars, routeAltDelayTimer, saved>>

\* RouteController::loadFlightplan(filename)
LoadFile(filename) ==
  IF filename = "bad.pln"
  THEN LoadFailed("loadFlightplan")
  ELSE LET fp == FileFlightplan(filename)
           r == LoadFlightplanInternal(route, fp, spinBoxRouteAlt,
                                       comboBoxRouteType, FALSE)
       IN /\ route' = r
          /\ SetUndoState(ClearedUndoState)
          /\ routeFilename' = filename
          /\ routeFileFormat' = fp.fileFormat
          /\ fileDeparture' = fp.departureIdent
          /\ fileDestination' = fp.destinationIdent
          /\ fileIfrVfr' = (IF fp.fileFormat = "FMS11"
                            THEN (IF comboBoxRouteType = 0 THEN "IFR" ELSE "VFR")
                            ELSE fp.flightplanType)
          /\ SyncWidgets(r)
          /\ UNCHANGED <<routeNetworkQueries, approachTree>>
          /\ op' = [name |-> "loadFlightplan", ret |-> TRUE, thrown |-> FALSE,
                    filename |-> filename]
          /\ saved' = PlanValue(r)
          /\ track' = NoTrack
          /\ UNCHANGED routeAltDelayTimer

\* RouteController::loadFlightplan(flightplan, filename, quiet, changed,
\* adjustAltitude) for an FLP plan whose route string was resolved: the
\* entries are those RouteString::createRouteFromString built from the
\* identifiers and airways of the file
LoadFlpInternal(r, flightplan, alt, typeIndex) ==
  LET fp == [flightplan EXCEPT
               !.flightplanType = IF typeIndex = 0 THEN "IFR" ELSE "VFR",
               !.cruisingAltitude = alt]
      r1 == ClearRoute(r, alt, typeIndex)
      r2 == [r1 EXCEPT !.flightplan = fp]
      r3 == CreateRouteLegsFromFlightplan(r2)
      r4 == LoadProceduresFromFlightplan(r3, TRUE)
      r5 == UpdateAirwaysAndAltitude(r4, TRUE, TRUE)
  IN UpdateStartPositionBestRunway(r5, TRUE)

\* RouteController::loadFlightplan(filename) for an FLP file that can be
\* read; ok is the result of RouteString::createRouteFromString.  Without
\* it the inner loadFlightplan warns and returns, the outer one returns true
LoadFlpFlightplan ==
  \E filename \in {"e.flp"}, ok \in BOOLEAN :
    LET fp == FileFlightplan(filename)
        r == LoadFlpInternal(route, fp, spinBoxRouteAlt, comboBoxRouteType)
    IN /\ op' = [name |-> "loadFlightplan", ret |-> TRUE, thrown |-> FALSE,
                 filename |-> filename]
       /\ track' = NoTrack
       /\ UNCHANGED <<routeAltDelayTimer, routeNetworkQueries, approachTree>>
       /\ IF ok
          THEN /\ route' = r
               /\ SetUndoState(ClearedUndoState)
               /\ routeFilename' = filename
               /\ routeFileFormat' = fp.fileFormat
               /\ fileDeparture' = fp.departureIdent
               /\ fileDestination' = fp.destinationIdent
               /\ fileIfrVfr' = (IF comboBoxRouteType = 0 THEN "IFR" ELSE "VFR")
               /\ SyncWidgets(r)
               /\ saved' = PlanValue(r)
          ELSE UNCHANGED <<route, undoVars, fileVars, widgetVars, saved>>

\* The user picks a file
LoadFlightplan == \E filename \in Filenames : LoadFile(filename)

\* The user picks a file that can be read
LoadReadableFlightplan == \E filename \in Filenames \ {"bad.pln"} : LoadFile(filename)

\* A copy loop that runs from the first loaded entry to the last and inserts
\* each of them at the same index
InsertEntriesForward(entries, at, add) ==
  LET RECURSIVE Ins(_, _)
      Ins(s, rest) == IF rest = <<>> THEN s
                      ELSE Ins(InsertAt(s, at, Head(rest)), Tail(rest))
  IN Ins(entries, add)

\* The loops of insertFlightplan that copy the loaded entries: at the end
\* one after the other (922-923), elsewhere from the last to the first, each
\* at insertBefore (983-984), so that the first loaded entry ends there
InsertEntries(entries, at, add) == InsertAllAt(entries, at, add)

\* RouteController::insertFlightplan after the file is read, the route it
\* leaves: the plan is appended, put in front of the departure, put in front
\* of the destination or put in the middle
InsertFlightplanInternal(r, flightplan, insertBefore) ==
  LET append == insertBefore >= RouteSize(r)
      prepend == ~append /\ insertBefore = 0
      beforeDest == ~append /\ ~prepend /\ insertBefore >= RouteSize(r) - 1
      r1 == IF append \/ beforeDest THEN RemoveProcedureLegs(r, PROCEDURE_ARRIVAL_ALL)
            ELSE IF prepend THEN RemoveProcedureLegs(r, PROCEDURE_DEPARTURE)
            ELSE EraseAirway(r, insertBefore)
      fp == r1.flightplan
      at == IF append THEN Len(fp.entries)
            ELSE IF beforeDest THEN RouteSize(r1) - 1 ELSE insertBefore
      fp1 == [fp EXCEPT !.entries = InsertEntries(fp.entries, at, flightplan.entries)]
      fp2 == IF append
             THEN [fp1 EXCEPT
                     !.destinationAiportName = flightplan.destinationAiportName,
                     !.destinationIdent = flightplan.destinationIdent,
                     !.properties.approach = flightplan.properties.approach,
                     !.properties.transition = flightplan.properties.transition,
                     !.properties.star = flightplan.properties.star,
                     !.properties.startrans = flightplan.properties.startrans]
             ELSE IF prepend
             THEN [fp1 EXCEPT
                     !.departureAiportName = flightplan.departureAiportName,
                     !.departureIdent = flightplan.departureIdent,
                     !.properties.sidappr = flightplan.properties.sidappr,
                     !.properties.sidtrans = flightplan.properties.sidtrans]
             ELSE fp1
      r2 == [r1 EXCEPT !.flightplan = RemoveNoSaveEntries(fp2)]
      r3 == CreateRouteLegsFromFlightplan(r2)
  IN UpdateAirwaysAndAltitude(LoadProceduresFromFlightplan(r3, TRUE), FALSE, FALSE)

\* RouteController::insertFlightplan(filename, insertBefore)
InsertFlightplan ==
  \E filename \in Filenames, insertBefore \in 0 .. RouteSize(route) :
    IF filename = "bad.pln"
    THEN LoadFailed("insertFlightplan")
    ELSE LET r == InsertFlightplanInternal(route, FileFlightplan(filename), insertBefore)
         IN /\ Len(PreChange(route).entries) < MaxEntries
            /\ Commit(r, PreChange(route), "EDIT",
                      [name |-> "insertFlightplan", ret |-> TRUE,
                       thrown |-> FALSE, filename |-> filename,
                       insertBefore |-> insertBefore])
            /\ SyncWidgets(r)
            /\ UNCHANGED routeAltDelayTimer

\* RouteController::saveFlightplan(false): FlightplanIO::save may throw, and
\* does for a plan without file name
SaveFlightplan ==
  \E ok \in BOOLEAN :
    /\ ~RouteIsEmpty(route)
    /\ ok => routeFilename # ""
    /\ fileDeparture' = route.flightplan.departureIdent
    /\ fileDestination' = route.flightplan.destinationIdent
    /\ fileIfrVfr' = route.flightplan.flightplanType
    /\ IF ok
       THEN /\ routeFileFormat' = (IF route.flightplan.fileFormat = "PLN_FS9"
                                   THEN "PLN_FSX" ELSE routeFileFormat)
            /\ undoIndexClean' = undoIndex
            /\ stackClean' = stackIndex
            /\ saved' = PlanValue(route)
       ELSE UNCHANGED <<routeFileFormat, undoIndexClean, stackClean, saved>>
    /\ UNCHANGED <<routeNetworkQueries, approachTree>>
    /\ op' = [name |-> "saveFlightplan", ret |-> ok]
    /\ track' = NoTrack
    /\ UNCHANGED <<route, undoStack, stackIndex, undoIndex, routeFilename,
                   widgetVars, routeAltDelayTimer>>

\* The members saveFlightplan may assign
FileState ==
  [routeFilename |-> routeFilename, routeFileFormat |-> routeFileFormat,
   fileDeparture |-> fileDeparture, fileDestination |-> fileDestination,
   fileIfrVfr |-> fileIfrVfr, undoIndexClean |-> undoIndexClean,
   stackClean |-> stackClean]

\* RouteController::saveFlightplan(cleanExport) on the members f: the file
\* fields are assigned before the save and the clean index after it unless
\* the plan is exported; a plan of the old format is saved as PLN_FSX; ok
\* tells whether FlightplanIO::save returned without exception
SaveFlightplanInternal(f, r, cleanExport, ok) ==
  LET f1 == IF cleanExport THEN f
            ELSE [f EXCEPT !.fileDeparture = r.flightplan.departureIdent,
                           !.fileDestination = r.flightplan.destinationIdent,
                           !.fileIfrVfr = r.flightplan.flightplanType]
      f2 == IF ok /\ r.flightplan.fileFormat = "PLN_FS9"
            THEN [f1 EXCEPT !.routeFileFormat = "PLN_FSX"] ELSE f1
  IN IF ok /\ ~cleanExport
     THEN [f2 EXCEPT !.undoIndexClean = undoIndex, !.stackClean = stackIndex]
     ELSE f2

\* An export that saves like saveFlightplan(false)
ExportFlighplanAsSaved(f, r, filename, ok) ==
  LET f1 == [f EXCEPT !.routeFilename = filename, !.routeFileFormat = "PLN_FSX"]
      f2 == SaveFlightplanInternal(f1, r, FALSE, ok)
  IN [f2 EXCEPT !.routeFilename = f.routeFilename,
                !.routeFileFormat = f.routeFileFormat]

\* RouteController::exportFlighplanAsClean on the members f: file name and
\* format are set for the save and put back after it
ExportFlighplanAsCleanInternal(f, r, filename, ok) ==
  LET f1 == [f EXCEPT !.routeFilename = filename, !.routeFileFormat = "PLN_FSX"]
      f2 == SaveFlightplanInternal(f1, r, TRUE, ok)
  IN [f2 EXCEPT !.routeFilename = f.routeFilename,
                !.routeFileFormat = f.routeFileFormat]

\* RouteController::exportFlighplanAsClean(filename); FlightplanIO::save may
\* throw
ExportFlighplanAsClean ==
  \E filename \in {"x.pln"}, ok \in BOOLEAN :
    LET f == ExportFlighplanAsCleanInternal(FileState, route, filename, ok)
    IN /\ ~RouteIsEmpty(route)
       /\ routeFilename' = f.routeFilename
       /\ routeFileFormat' = f.routeFileFormat
       /\ fileDeparture' = f.fileDeparture
       /\ fileDestination' = f.fileDestination
       /\ fileIfrVfr' = f.fileIfrVfr
       /\ undoIndexClean' = f.undoIndexClean
       /\ stackClean' = f.stackClean
       /\ op' = [name |-> "exportFlighplanAsClean", ret |-> ok]
       /\ track' = NoTrack
       /\ UNCHANGED <<routeNetworkQueries, approachTree>>
       /\ UNCHANGED <<route, undoStack, stackIndex, undoIndex, widgetVars,
                      routeAltDelayTimer, saved>>

\* RouteController::saveFlighplanAs: the file name and the format are set,
\* then saveFlightplan(false) saves; FlightplanIO::save may throw
SaveFlighplanAs ==
  \E filename \in {"d.pln"}, targetFileFormat \in FileFormats, ok \in BOOLEAN :
    LET r == [route EXCEPT !.flightplan.fileFormat = targetFileFormat]
    IN /\ ~RouteIsEmpty(route)
       /\ route' = r
       /\ routeFilename' = filename
       /\ fileDeparture' = r.flightplan.departureIdent
       /\ fileDestination' = r.flightplan.destinationIdent
       /\ fileIfrVfr' = r.flightplan.flightplanType
       /\ IF ok
          THEN /\ routeFileFormat' = (IF targetFileFormat = "PLN_FS9"
                                      THEN "PLN_FSX" ELSE targetFileFormat)
               /\ undoIndexClean' = undoIndex
               /\ stackClean' = stackIndex
               /\ saved' = PlanValue(r)
          ELSE /\ routeFileFormat' = targetFileFormat
               /\ UNCHANGED <<undoIndexClean, stackClean, saved>>
       /\ UNCHANGED <<routeNetworkQueries, approachTree>>
       /\ op' = [name |-> "saveFlighplanAs", ret |-> ok]
       /\ track' = NoTrack
       /\ UNCHANGED <<undoStack, stackIndex, undoIndex, widgetVars, routeAltDelayTimer>>

----------------------------------------------------------------------------
(* Editing the flight plan *)

\* map::INVALID_INDEX_VALUE, the largest int: no index of a leg
INVALID_INDEX_VALUE == 2147483647

\* Entries of the plan that are no procedure entries
NumPlanEntries(r) == Len(RemoveNoSaveEntries(r.flightplan).entries)

\* Positions Route::getNearestRouteLegResult can lead to when it ignores the
\* legs that are not editable: not in front of a departure procedure leg and
\* not behind an arrival procedure leg
EditablePosition(r, i) ==
  /\ 0 <= i /\ i <= RouteSize(r)
  /\ ~(i < RouteSize(r) /\ At(r.legs, i).proc \in PROCEDURE_DEPARTURE)
  /\ ~(i > 0 /\ At(r.legs, i - 1).proc \in PROCEDURE_ARRIVAL_ALL)

LineDistanceStatus == {"INVALID", "ALONG_TRACK", "BEFORE_START", "AFTER_END"}

\* Variant of calculateInsertIndex that puts the second entry in front of
\* the first one
CalculateInsertIndexInFront(r, legIndex, status, nearestlegIndex) ==
  IF legIndex = INVALID_INDEX_VALUE THEN RouteSize(r)
  ELSE IF legIndex = -1
  THEN IF Len(r.flightplan.entries) <= 1 THEN 0
       ELSE CASE status = "INVALID" -> 0
              [] status = "ALONG_TRACK" -> nearestlegIndex
              [] status = "BEFORE_START" ->
                   IF nearestlegIndex = 1 THEN 0 ELSE nearestlegIndex
              [] status = "AFTER_END" ->
                   IF nearestlegIndex = RouteSize(r) - 1
                   THEN nearestlegIndex + 1 ELSE nearestlegIndex
  ELSE legIndex + 1

\* RouteController::calculateInsertIndex; status and nearestlegIndex are the
\* result of Route::getNearestRouteLegResult for the position
CalculateInsertIndex(r, legIndex, status, nearestlegIndex) ==
  IF legIndex = INVALID_INDEX_VALUE THEN RouteSize(r)
  ELSE IF legIndex = -1
  THEN IF r.flightplan.entries = <<>> THEN 0
       ELSE IF Len(r.flightplan.entries) = 1 THEN 1
       ELSE CASE status = "INVALID" -> 0
              [] status = "ALONG_TRACK" -> nearestlegIndex
              [] status = "BEFORE_START" ->
                   IF nearestlegIndex = 1 THEN 0 ELSE nearestlegIndex
              [] status = "AFTER_END" ->
                   IF nearestlegIndex = RouteSize(r) - 1
                   THEN nearestlegIndex + 1 ELSE nearestlegIndex
  ELSE legIndex + 1

\* The tail all editing handlers share: routeToFlightPlan and
\* updateFlightplanFromWidgets
FinishEdit(r) ==
  UpdateFlightplanFromWidgets(RouteToFlightPlan(r), spinBoxRouteAlt, comboBoxRouteType)

\* Variant of routeAddInternal that erases the airway of the new entry only
RouteAddErasesOneAirway(r, entry, insertIndex) ==
  LET r1 == [r EXCEPT !.flightplan.entries = InsertAt(r.flightplan.entries, insertIndex, entry)]
  IN EraseAirway(r1, insertIndex)

\* RouteController::routeAddInternal up to the point where the route leg is
\* created: the entry is in the plan, the airways next to it are erased
RouteAddEntry(r, entry, insertIndex) ==
  LET r1 == [r EXCEPT !.flightplan.entries = InsertAt(r.flightplan.entries, insertIndex, entry)]
  IN EraseAirway(EraseAirway(r1, insertIndex), insertIndex + 1)

\* RouteController::routeAddInternal from there on; read is the entry that
\* createFromDatabaseByEntry finds at insertIndex
RouteAddLeg(r2, read, insertIndex) ==
  LET leg == CreateFromDatabaseByEntry(read, r2.flightplan, insertIndex > 0)
      r3 == [r2 EXCEPT !.legs = InsertAt(r2.legs, insertIndex, leg)]
      procs == AffectedProcedures(r3, {insertIndex})
      r4 == RemoveProcedureLegs(r3, procs)
  IN FinishEdit(UpdateStartPositionBestRunway(r4, FALSE))

\* RouteController::routeAddInternal, the route it leaves for an index inside
\* the plan
RouteAddInternal(r, entry, insertIndex) ==
  RouteAddLeg(RouteAddEntry(r, entry, insertIndex), entry, insertIndex)

\* The insert indexes routeAdd can compute: for a leg index given by the
\* caller (append or insert after that leg) and for the nearest editable leg
InsertIndexes(r) ==
  {CalculateInsertIndex(r, legIndex, "INVALID", 1) :
     legIndex \in {INVALID_INDEX_VALUE} \cup Rows(r.legs)}
  \cup
  {i \in {CalculateInsertIndex(r, -1, status, nearestlegIndex) :
            status \in LineDistanceStatus,
            nearestlegIndex \in 1 .. Max({1, RouteSize(r) - 1})} :
     EditablePosition(r, i)}

\* RouteController::routeAdd
RouteAdd ==
  \E ident \in Airports \cup Waypoints, insertIndex \in InsertIndexes(route) :
    /\ NumPlanEntries(route) < MaxEntries
    /\ Commit(RouteAddInternal(route, Entry(ident), insertIndex),
              PreChange(route), "EDIT",
              [name |-> "routeAdd", insertIndex |-> insertIndex])
    /\ UNCHANGED <<widgetVars, routeAltDelayTimer>>

\* Leg indexes of a caller that are no rows of the table (and neither -1 nor
\* INVALID_INDEX_VALUE): calculateInsertIndex adds one
LegIndexesOutOfRange(r) == {-2, RouteSize(r) + 1}

\* RouteController::routeAdd with such a leg index.  No index is checked:
\* QList::insert puts the entry at the nearest end, then
\* createFromDatabaseByEntry(insertIndex) reads the entry list outside its
\* bounds, which is undefined: the program ends there, or it goes on with
\* whatever entry it has read.
RouteAddOutOfRange ==
  \E ident \in Airports \cup Waypoints, legIndex \in LegIndexesOutOfRange(route) :
    LET insertIndex == CalculateInsertIndex(route, legIndex, "INVALID", 1)
        r2 == RouteAddEntry(route, Entry(ident), insertIndex)
    IN /\ NumPlanEntries(route) < MaxEntries
       /\ \/ /\ route' = r2
             /\ UNCHANGED <<routeNetworkQueries, approachTree>>
             /\ op' = [name |-> "terminated", insertIndex |-> insertIndex,
                       reported |-> FALSE]
             /\ track' = NoTrack
             /\ UNCHANGED <<undoVars, fileVars, saved>>
          \/ \E read \in Airports \cup Waypoints :
               Commit(RouteAddLeg(r2, Entry(read), insertIndex), PreChange(route), "EDIT",
                      [name |-> "routeAdd", insertIndex |-> insertIndex,
                       reported |-> FALSE])
       /\ UNCHANGED <<widgetVars, routeAltDelayTimer>>

\* RouteController::routeReplace, the route it leaves
RouteReplaceInternal(r, entry, legIndex) ==
  LET r1 == [r EXCEPT !.flightplan.entries = ReplaceAt(r.flightplan.entries, legIndex, entry)]
      leg == CreateFromDatabaseByEntry(entry, r1.flightplan, legIndex > 0)
      r2 == [r1 EXCEPT !.legs = ReplaceAt(r1.legs, legIndex, leg)]
      r3 == EraseAirway(EraseAirway(r2, legIndex), legIndex + 1)
      r4 == IF legIndex = RouteSize(r3) - 1
            THEN RemoveProcedureLegs(r3, PROCEDURE_ARRIVAL_ALL) ELSE r3
      r5 == IF legIndex = 0 THEN RemoveProcedureLegs(r4, PROCEDURE_DEPARTURE) ELSE r4
  IN FinishEdit(UpdateStartPositionBestRunway(r5, legIndex = 0))

\* RouteController::routeReplace; the map offers it for legs that are not
\* part of a procedure
RouteReplace ==
  \E ident \in Airports \cup Waypoints, legIndex \in Rows(route.legs) :
    /\ ~IsAnyProcedure(At(route.legs, legIndex))
    /\ Commit(RouteReplaceInternal(route, Entry(ident), legIndex),
              PreChange(route), "EDIT",
              [name |-> "routeReplace", legIndex |-> legIndex])
    /\ UNCHANGED <<widgetVars, routeAltDelayTimer>>

\* Variant of routeDelete that keeps the airway name of the entry that
\* follows the gap
RouteDeleteKeepsAirway(r, index) ==
  LET r1 == [r EXCEPT !.flightplan.entries = RemoveAt(r.flightplan.entries, index),
                      !.legs = RemoveAt(r.legs, index)]
      r3 == IF index = RouteSize(r1)
            THEN RemoveProcedureLegs(r1, PROCEDURE_ARRIVAL_ALL) ELSE r1
      r4 == IF index = 0 THEN RemoveProcedureLegs(r3, PROCEDURE_DEPARTURE) ELSE r3
  IN FinishEdit(UpdateStartPositionBestRunway(r4, index = 0))

\* Variant of routeDelete that compares the index with the last index left
\* after the removal
RouteDeleteComparesLastIndex(r, index) ==
  LET r1 == [r EXCEPT !.flightplan.entries = RemoveAt(r.flightplan.entries, index),
                      !.legs = RemoveAt(r.legs, index)]
      r2 == EraseAirway(r1, index)
      r3 == IF index = RouteSize(r2) - 1
            THEN RemoveProcedureLegs(r2, PROCEDURE_ARRIVAL_ALL) ELSE r2
      r4 == IF index = 0 THEN RemoveProcedureLegs(r3, PROCEDURE_DEPARTURE) ELSE r3
  IN FinishEdit(UpdateStartPositionBestRunway(r4, index = 0))

\* RouteController::routeDelete, the route it leaves
RouteDeleteInternal(r, index) ==
  LET r1 == [r EXCEPT !.flightplan.entries = RemoveAt(r.flightplan.entries, index),
                      !.legs = RemoveAt(r.legs, index)]
      r2 == EraseAirway(r1, index)
      r3 == IF index = RouteSize(r2)
            THEN RemoveProcedureLegs(r2, PROCEDURE_ARRIVAL_ALL) ELSE r2
      r4 == IF index = 0 THEN RemoveProcedureLegs(r3, PROCEDURE_DEPARTURE) ELSE r3
  IN FinishEdit(UpdateStartPositionBestRunway(r4, index = 0))

\* RouteController::routeDelete; the map offers it for legs that are not
\* part of a procedure
RouteDelete ==
  \E index \in Rows(route.legs) :
    /\ ~IsAnyProcedure(At(route.legs, index))
    /\ Commit(RouteDeleteInternal(route, index), PreChange(route), "EDIT",
              [name |-> "routeDelete", index |-> index])
    /\ UNCHANGED <<widgetVars, routeAltDelayTimer>>

----------------------------------------------------------------------------
(* Selections: move up/down and delete *)

MOVE_UP == -1
MOVE_DOWN == 1

\* QItemSelectionModel::selection: any non-empty set of rows of the table
Selections(r) == SUBSET Rows(r.legs) \ {{}}

\* Selections made by dragging over the table: one block of rows
BlockSelections(r) ==
  {first .. last : first \in Rows(r.legs), last \in Rows(r.legs)} \ {{}}

\* The flags of RouteController::updateMoveAndDeleteActions; rows is the
\* sorted list of selected rows, rows.first() its smallest
ContainsProc(r, rows) == \E row \in rows : IsAnyProcedure(At(r.legs, row))
MoveUpTouchesProc(r, rows) ==
  Min(rows) > 0 /\ IsAnyProcedure(At(r.legs, Min(rows) - 1))
MoveDownTouchesProc(r, rows) ==
  Min(rows) < RouteSize(r) - 1 /\ IsAnyProcedure(At(r.legs, Min(rows) + 1))

\* actionRouteLegUp->setEnabled(...)
LegUpEnabled(r, rows) ==
  /\ RouteSize(r) > 1
  /\ rows # {}
  /\ 0 \notin rows
  /\ ~ContainsProc(r, rows)
  /\ ~MoveUpTouchesProc(r, rows)

\* actionRouteLegDown->setEnabled(...)
LegDownEnabled(r, rows) ==
  /\ RouteSize(r) > 1
  /\ rows # {}
  /\ (RouteSize(r) - 1) \notin rows
  /\ ~ContainsProc(r, rows)
  /\ ~MoveDownTouchesProc(r, rows)

\* actionRouteDeleteLeg->setEnabled(...)
DeleteLegEnabled(r, rows) == RouteSize(r) >= 1 /\ rows # {}

RECURSIVE MoveRows(_, _, _)
\* the loop of moveSelectedLegsInternal over the rows in list order
MoveRows(r, rowList, direction) ==
  IF rowList = <<>> THEN r
  ELSE LET row == Head(rowList)
           r1 == [r EXCEPT
                    !.flightplan.entries = MoveAt(r.flightplan.entries, row, row + direction),
                    !.legs = MoveAt(r.legs, row, row + direction)]
       IN MoveRows(r1, Tail(rowList), direction)

\* RouteController::moveSelectedLegsInternal, the route it leaves
MoveSelectedLegsInternal(r, rows, direction) ==
  LET rowList == IF direction = MOVE_DOWN THEN SortedDesc(rows) ELSE SortedAsc(rows)
      r1 == MoveRows(r, rowList, direction)
      firstRow == Head(rowList)
      lastRow == rowList[Len(rowList)]
      r2 == IF direction = MOVE_DOWN
            THEN EraseAirway(EraseAirway(EraseAirway(r1, lastRow), lastRow + 1),
                             firstRow + 2)
            ELSE EraseAirway(EraseAirway(EraseAirway(r1, firstRow - 1), lastRow),
                             lastRow + 1)
      forceDeparturePosition == IF direction = MOVE_DOWN THEN 0 \in rows ELSE 1 \in rows
  IN FinishEdit(UpdateStartPositionBestRunway(r2, forceDeparturePosition))

\* The user selects rows and triggers the enabled move action:
\* RouteController::moveSelectedLegsUp / moveSelectedLegsDown
MoveSelectedLegs ==
  \E direction \in {MOVE_UP, MOVE_DOWN}, rows \in BlockSelections(route) :
    /\ IF direction = MOVE_UP THEN LegUpEnabled(route, rows)
       ELSE LegDownEnabled(route, rows)
    /\ Commit(MoveSelectedLegsInternal(route, rows, direction), PreChange(route), "MOVE",
              [name |-> "moveSelectedLegs", direction |-> direction, rows |-> rows])
    /\ UNCHANGED <<widgetVars, routeAltDelayTimer>>

\* The same with any selection of the table, also rows that are not
\* adjacent: selectedRows collects the rows of all selection ranges
MoveSelectedRows ==
  \E direction \in {MOVE_UP, MOVE_DOWN}, rows \in Selections(route) :
    /\ IF direction = MOVE_UP THEN LegUpEnabled(route, rows)
       ELSE LegDownEnabled(route, rows)
    /\ Commit(MoveSelectedLegsInternal(route, rows, direction), PreChange(route), "MOVE",
              [name |-> "moveSelectedLegs", direction |-> direction, rows |-> rows])
    /\ UNCHANGED <<widgetVars, routeAltDelayTimer>>

RECURSIVE RemoveRows(_, _)
\* the loop of deleteSelectedLegs over the rows, largest first
RemoveRows(r, rowList) ==
  IF rowList = <<>> THEN r
  ELSE LET row == Head(rowList)
           r1 == [r EXCEPT !.flightplan.entries = RemoveAt(r.flightplan.entries, row)]
           r2 == EraseAirway(r1, row)
           r3 == [r2 EXCEPT !.legs = RemoveAt(r2.legs, row)]
       IN RemoveRows(r3, Tail(rowList))

\* RouteController::deleteSelectedLegs, the route it leaves
DeleteSelectedLegsInternal(r, rows) ==
  LET procs == AffectedProcedures(r, rows)
      r1 == RemoveRows(r, SortedDesc(rows))
      r2 == RemoveProcedureLegs(r1, procs)
  IN FinishEdit(UpdateStartPositionBestRunway(r2, 0 \in rows))

\* The user selects rows and triggers the delete action:
\* RouteController::deleteSelectedLegs
DeleteSelectedLegs ==
  \E rows \in BlockSelections(route) :
    /\ DeleteLegEnabled(route, rows)
    /\ Commit(DeleteSelectedLegsInternal(route, rows), PreChange(route),
              IF AffectedProcedures(route, rows) # {} THEN "EDIT" ELSE "DELETE",
              [name |-> "deleteSelectedLegs", rows |-> rows,
               tags |-> {At(route.legs, row).proc : row \in rows} \ {"NONE"}])
    /\ UNCHANGED <<widgetVars, routeAltDelayTimer>>

----------------------------------------------------------------------------
(* Departure, destination and procedures *)

\* RouteController::routeSetDepartureInternal
RouteSetDepartureInternal(r, airport) ==
  LET fp == r.flightplan
      replace == /\ fp.entries # <<>>
                 /\ fp.entries[1].waypointType = "AIRPORT"
                 /\ fp.departureIdent = fp.entries[1].ident
                 /\ Len(fp.entries) > 1
      r1 == IF replace
            THEN [r EXCEPT !.flightplan.entries = RemoveAt(fp.entries, 0),
                           !.legs = RemoveAt(r.legs, 0)]
            ELSE r
      r2 == [r1 EXCEPT !.flightplan.entries = <<Entry(airport)>> \o r1.flightplan.entries,
                       !.legs = <<CreateFromAirport(airport)>> \o r1.legs]
  IN UpdateStartPositionBestRunway(r2, TRUE)

\* Variant of routeSetDestinationInternal that replaces the last entry
\* whatever it is
RouteSetDestinationReplacesLast(r, airport) ==
  LET fp == r.flightplan
      n == Len(fp.entries)
      r1 == IF n > 1
            THEN [r EXCEPT !.flightplan.entries = RemoveAt(fp.entries, n - 1),
                           !.legs = RemoveAt(r.legs, RouteSize(r) - 1)]
            ELSE r
      r2 == [r1 EXCEPT !.flightplan.entries = Append(r1.flightplan.entries, Entry(airport)),
                       !.legs = Append(r1.legs, CreateFromAirport(airport))]
  IN UpdateStartPositionBestRunway(r2, FALSE)

\* RouteController::routeSetDestinationInternal
RouteSetDestinationInternal(r, airport) ==
  LET fp == r.flightplan
      n == Len(fp.entries)
      replace == /\ fp.entries # <<>>
                 /\ fp.entries[n].waypointType = "AIRPORT"
                 /\ fp.destinationIdent = fp.entries[n].ident
                 /\ n > 1
      r1 == IF replace
            THEN [r EXCEPT !.flightplan.entries = RemoveAt(fp.entries, n - 1),
                           !.legs = RemoveAt(r.legs, RouteSize(r) - 1)]
            ELSE r
      r2 == [r1 EXCEPT !.flightplan.entries = Append(r1.flightplan.entries, Entry(airport)),
                       !.legs = Append(r1.legs, CreateFromAirport(airport))]
  IN UpdateStartPositionBestRunway(r2, FALSE)

\* RouteController::routeSetDeparture
RouteSetDeparture ==
  \E airport \in Airports :
    /\ NumPlanEntries(route) < MaxEntries
    /\ Commit(FinishEdit(RemoveProcedureLegs(RouteSetDepartureInternal(route, airport),
                                             PROCEDURE_DEPARTURE)),
              PreChange(route), "EDIT", [name |-> "routeSetDeparture", airport |-> airport])
    /\ UNCHANGED <<widgetVars, routeAltDelayTimer>>

\* RouteController::routeSetDestination
RouteSetDestination ==
  \E airport \in Airports :
    /\ NumPlanEntries(route) < MaxEntries
    /\ Commit(FinishEdit(RemoveProcedureLegs(RouteSetDestinationInternal(route, airport),
                                             PROCEDURE_ARRIVAL_ALL)),
              PreChange(route), "EDIT", [name |-> "routeSetDestination", airport |-> airport])
    /\ UNCHANGED <<widgetVars, routeAltDelayTimer>>

\* The procedures the procedure search offers for an airport: legs.mapType,
\* the airport and the legs
AttachableProcedures ==
  {[mapType |-> "DEPARTURE", airport |-> a, legs |-> DepartureProcedure(p[1], p[2])] :
     a \in Airports, p \in {<<"SID1", "">>, <<"SID1", "TR">>, <<"SID0", "TR">>}}
  \cup
  {[mapType |-> "STAR", airport |-> a, legs |-> StarProcedure("STAR1", t)] :
     a \in Airports, t \in {"", "TR"}}
  \cup
  {[mapType |-> "ARRIVAL", airport |-> a, legs |-> ArrivalProcedure("ILS", t)] :
     a \in Airports, t \in {"", "TRA"}}

\* Variant of routeAttachProcedure that sets the airport leg of another
\* airport and keeps the procedures attached to the old one
RouteAttachProcedureKeepsOld(r, proc) ==
  LET arrival ==
        LET other == \/ RouteIsEmpty(r)
                     \/ RouteLast(r).type # "AIRPORT"
                     \/ RouteLast(r).ident # proc.airport
            r1 == IF other THEN RouteSetDestinationInternal(r, proc.airport) ELSE r
            r2 == IF proc.mapType = "STAR"
                  THEN [r1 EXCEPT !.starLegs = proc.legs]
                  ELSE [r1 EXCEPT !.arrivalLegs = proc.legs]
        IN UpdateProcedureLegs(r2, TRUE)
      departure ==
        LET other == \/ RouteIsEmpty(r)
                     \/ RouteFirst(r).type # "AIRPORT"
                     \/ RouteFirst(r).ident # proc.airport
            r1 == IF other THEN RouteSetDepartureInternal(r, proc.airport) ELSE r
        IN UpdateProcedureLegs([r1 EXCEPT !.departureLegs = proc.legs], TRUE)
  IN FinishEdit(IF proc.mapType = "DEPARTURE" THEN departure ELSE arrival)

\* RouteController::routeAttachProcedure, the route it leaves
RouteAttachProcedureInternal(r, proc) ==
  LET arrival ==
        LET other == \/ RouteIsEmpty(r)
                     \/ RouteLast(r).type # "AIRPORT"
                     \/ RouteLast(r).ident # proc.airport
            r1 == IF other
                  THEN RouteSetDestinationInternal(
                         RemoveProcedureLegs(r, PROCEDURE_ARRIVAL_ALL), proc.airport)
                  ELSE r
            r2 == IF proc.mapType = "STAR"
                  THEN [r1 EXCEPT !.starLegs = proc.legs]
                  ELSE [r1 EXCEPT !.arrivalLegs = proc.legs]
        IN UpdateProcedureLegs(r2, TRUE)
      departure ==
        LET other == \/ RouteIsEmpty(r)
                     \/ RouteFirst(r).type # "AIRPORT"
                     \/ RouteFirst(r).ident # proc.airport
            r1 == IF other
                  THEN RouteSetDepartureInternal(
                         RemoveProcedureLegs(r, PROCEDURE_DEPARTURE), proc.airport)
                  ELSE r
        IN UpdateProcedureLegs([r1 EXCEPT !.departureLegs = proc.legs], TRUE)
  IN FinishEdit(IF proc.mapType = "DEPARTURE" THEN departure ELSE arrival)

\* RouteController::routeAttachProcedure
RouteAttachProcedure ==
  \E proc \in AttachableProcedures :
    /\ NumPlanEntries(route) < MaxEntries
    /\ Commit(RouteAttachProcedureInternal(route, proc), PreChange(route), "EDIT",
              [name |-> "routeAttachProcedure", mapType |-> proc.mapType,
               airport |-> proc.airport, legs |-> proc.legs])
    /\ UNCHANGED <<widgetVars, routeAltDelayTimer>>

----------------------------------------------------------------------------
(* Cruise altitude and flight plan type widgets *)

\* What is remembered of an altitude change: whether its command was merged
\* into the command on top of the stack, and the plan before the first of the
\* changes merged into that command if the handler calls since then are known
AltitudeChangeRecord ==
  LET merged == /\ ~RouteIsEmpty(route)
                /\ WouldMerge([UndoState EXCEPT !.undoIndex = undoIndex + 1], "ALTITUDE")
      known == /\ ~RouteIsEmpty(route)
               /\ merged => (op.name = "routeAltChanged" /\ op.known)
  IN [name |-> "routeAltChanged", merged |-> merged, known |-> known,
      first |-> IF merged /\ known THEN op.first ELSE PlanValue(route)]

\* RouteController::routeAltChanged: the user has set the spin box to alt
RouteAltChanged ==
  \E alt \in Altitudes \ {spinBoxRouteAlt} :
    LET r == UpdateFlightplanFromWidgets(route, alt, comboBoxRouteType)
    IN /\ spinBoxRouteAlt' = alt
       /\ routeAltDelayTimer' = TRUE
       /\ UNCHANGED comboBoxRouteType
       /\ IF ~RouteIsEmpty(route)
          THEN Commit(r, PreChange(route), "ALTITUDE", AltitudeChangeRecord)
          ELSE /\ route' = r
               /\ UNCHANGED <<routeNetworkQueries, approachTree>>
               /\ op' = AltitudeChangeRecord
               /\ track' = NoTrack
               /\ UNCHANGED <<undoVars, fileVars, saved>>

\* RouteController::routeAltChangedDelayed: the single-shot timer fires
RouteAltChangedDelayed ==
  /\ routeAltDelayTimer
  /\ routeAltDelayTimer' = FALSE
  /\ UNCHANGED <<routeNetworkQueries, approachTree>>
  /\ op' = [name |-> "routeAltChangedDelayed"]
  /\ UNCHANGED <<route, undoVars, fileVars, widgetVars, saved, track>>

\* RouteController::routeTypeChanged: the user has set the combo box to typeIndex
RouteTypeChanged ==
  \E typeIndex \in {0, 1} \ {comboBoxRouteType} :
    LET r == UpdateFlightplanFromWidgets(route, spinBoxRouteAlt, typeIndex)
    IN /\ comboBoxRouteType' = typeIndex
       /\ UNCHANGED <<spinBoxRouteAlt, routeAltDelayTimer>>
       /\ IF ~RouteIsEmpty(route)
          THEN Commit(r, PreChange(route), "EDIT", [name |-> "routeTypeChanged"])
          ELSE /\ route' = r
               /\ UNCHANGED <<routeNetworkQueries, approachTree>>
               /\ op' = [name |-> "routeTypeChanged"]
               /\ track' = NoTrack
               /\ UNCHANGED <<undoVars, fileVars, saved>>

----------------------------------------------------------------------------
(* Reversing the plan *)

RECURSIVE Reverse(_)
\* std::reverse over a list
Reverse(s) == IF s = <<>> THEN <<>> ELSE Append(Reverse(Tail(s)), Head(s))

\* atools Flightplan::reverse: the entries are reversed, departure and
\* destination change places and the departure parking is forgotten
FlightplanReverse(fp) ==
  [fp EXCEPT !.entries = Reverse(fp.entries),
             !.departureIdent = fp.destinationIdent,
             !.departureAiportName = fp.destinationAiportName,
             !.destinationIdent = fp.departureIdent,
             !.destinationAiportName = fp.departureAiportName,
             !.departureParkingName = ""]

\* The loop of reverseRoute that moves all airway names one entry down:
\* for(i = size - 2; i >= 1; i--) entries[i].setAirway(entries.at(i - 1).getAirway())
MoveAirwaysDown(entries) ==
  IF Len(entries) > 3
  THEN [k \in 1 .. Len(entries) |->
          IF k >= 2 /\ k <= Len(entries) - 1
          THEN [entries[k] EXCEPT !.airway = entries[k - 1].airway]
          ELSE entries[k]]
  ELSE entries

\* Variant of reverseRoute whose loop copies the whole entry one down, not
\* only its airway name
ReverseRouteMovesEntries(r) ==
  LET r0 == RemoveProcedureLegs(r, PROCEDURE_ALL)
      r1 == [r0 EXCEPT !.flightplan = FlightplanReverse(r0.flightplan)]
      entries == r1.flightplan.entries
      r2 == [r1 EXCEPT !.flightplan.entries =
                          IF Len(entries) > 3
                          THEN [k \in 1 .. Len(entries) |->
                                  IF k >= 2 /\ k <= Len(entries) - 1
                                  THEN entries[k - 1] ELSE entries[k]]
                          ELSE entries]
      r3 == CreateRouteLegsFromFlightplan(r2)
  IN UpdateStartPositionBestRunway(UpdateAirwaysAndAltitude(r3, FALSE, FALSE), TRUE)

\* Variant of reverseRoute that leaves the procedures of the plan in place
ReverseRouteKeepsProcedures(r) ==
  LET r1 == [r EXCEPT !.flightplan = FlightplanReverse(r.flightplan)]
      r2 == [r1 EXCEPT !.flightplan.entries = MoveAirwaysDown(r1.flightplan.entries)]
      r3 == [r2 EXCEPT !.legs = Reverse(r.legs)]
  IN UpdateStartPositionBestRunway(UpdateAirwaysAndAltitude(r3, FALSE, FALSE), TRUE)

\* RouteController::reverseRoute, the route it leaves
ReverseRouteInternal(r) ==
  LET r0 == RemoveProcedureLegs(r, PROCEDURE_ALL)
      r1 == [r0 EXCEPT !.flightplan = FlightplanReverse(r0.flightplan)]
      r2 == [r1 EXCEPT !.flightplan.entries = MoveAirwaysDown(r1.flightplan.entries)]
      r3 == CreateRouteLegsFromFlightplan(r2)
  IN UpdateStartPositionBestRunway(UpdateAirwaysAndAltitude(r3, FALSE, FALSE), TRUE)

\* Identifiers of a list of entries or legs
Idents(s) == [k \in 1 .. Len(s) |-> s[k].ident]

\* The departure and the destination ident of the plan are those of its
\* first and last entry: the ident of an airport, nothing for another entry
PlanEndsMatch(fp) ==
  LET identOf(e) == IF e.waypointType = "AIRPORT" /\ ~e.noSave THEN e.ident ELSE ""
  IN IF fp.entries = <<>>
     THEN fp.departureIdent = "" /\ fp.destinationIdent = ""
     ELSE /\ fp.departureIdent = identOf(Head(fp.entries))
          /\ fp.destinationIdent = identOf(fp.entries[Len(fp.entries)])

\* What a reverse is compared with afterwards: the identifiers of all
\* entries, of the entries that are no procedure entries, and the ends
PlanOrder(r) ==
  [idents |-> Idents(r.flightplan.entries),
   plain |-> Idents(RemoveNoSaveEntries(r.flightplan).entries),
   plainEnds |-> \/ r.flightplan.entries = <<>>
                 \/ /\ ~Head(r.flightplan.entries).noSave
                    /\ ~r.flightplan.entries[Len(r.flightplan.entries)].noSave,
   endsMatch |-> PlanEndsMatch(r.flightplan),
   departureIdent |-> r.flightplan.departureIdent,
   destinationIdent |-> r.flightplan.destinationIdent]

\* RouteController::reverseRoute
ReverseRoute ==
  LET r == ReverseRouteInternal(route)
      twice == op.name = "reverseRoute"
  IN /\ Commit(r, PreChange(route), "REVERSE",
               [name |-> "reverseRoute", before |-> PlanOrder(route), twice |-> twice,
                first |-> IF twice THEN op.before ELSE PlanOrder(route)])
     /\ SyncWidgets(r)
     /\ UNCHANGED routeAltDelayTimer

----------------------------------------------------------------------------
(* Route calculation *)

\* Route::getStartIndexAfterProcedure: the last leg of the departure procedure
StartIndexAfterProcedure(r) ==
  Max({0} \cup {i \in Rows(r.legs) : At(r.legs, i).proc \in PROCEDURE_DEPARTURE})

\* Route::getDestinationIndexBeforeProcedure: the first leg of the arrival
DestinationIndexBeforeProcedure(r) ==
  Min({RouteSize(r) - 1}
      \cup {i \in Rows(r.legs) : At(r.legs, i).proc \in PROCEDURE_ARRIVAL_ALL})

\* Paths RouteFinder::extractRoute can return: waypoints and the airway to each
CalculatedRoutes ==
  {<<>>,
   <<[ident |-> "W1", airway |-> ""]>>,
   <<[ident |-> "W1", airway |-> ""], [ident |-> "W2", airway |-> "V1"]>>}

\* Variant of the ratio check that leaves out the factor
RatioWithoutFactor(distance, directDistance) ==
  directDistance > 0 /\ distance <= directDistance

\* Variant of the ratio check that divides the direct distance by the distance
RatioInverted(distance, directDistance) ==
  distance > 0 /\ directDistance < MAX_DISTANCE_DIRECT_RATIO * distance

\* ratio = distance / directDistance; if(ratio < MAX_DISTANCE_DIRECT_RATIO):
\* a float division, infinite or NaN for a direct distance of zero
RatioAccepted(distance, directDistance) ==
  directDistance > 0 /\ distance < MAX_DISTANCE_DIRECT_RATIO * directDistance

RECURSIVE RemoveDuplicates(_, _)
\* rows of r.legs that repeat the ident of the leg before them
RemoveDuplicates(legs, i) ==
  IF i >= Len(legs) THEN {}
  ELSE (IF i > 0 /\ At(legs, i).ident = At(legs, i - 1).ident THEN {i} ELSE {})
       \cup RemoveDuplicates(legs, i + 1)

\* Route::removeDuplicateRouteLegs
RemoveDuplicateRouteLegs(r) ==
  LET drop == RemoveDuplicates(r.legs, 0)
  IN [r EXCEPT !.legs = SeqFilter(r.legs, drop),
               !.flightplan.entries = SeqFilter(r.flightplan.entries, drop)]

\* Variant of the replacement that erases the entry at toIndex as well
ReplaceRouteThroughToIndex(r, type, calculatedRoute, fetchAirways, useSetAltitude, calcRange, fromIndex, toIndex) ==
  LET entries == r.flightplan.entries
      n == Len(entries)
      new == [k \in 1 .. Len(calculatedRoute) |->
                [Entry(calculatedRoute[k].ident) EXCEPT
                   !.airway = IF fetchAirways THEN calculatedRoute[k].airway ELSE ""]]
      replaced == IF calcRange
                  THEN SubSeq(entries, 1, fromIndex + 1) \o new
                       \o SubSeq(entries, toIndex + 2, n)
                  ELSE <<entries[1]>> \o new \o <<entries[n]>>
      r1 == [r EXCEPT !.flightplan.routeType = type,
                      !.flightplan.entries = replaced]
      r2 == [r1 EXCEPT !.flightplan = RemoveNoSaveEntries(r1.flightplan)]
      r3 == LoadProceduresFromFlightplan(CreateRouteLegsFromFlightplan(r2), TRUE)
  IN UpdateAirwaysAndAltitude(RemoveDuplicateRouteLegs(r3), ~useSetAltitude, FALSE)

\* The branch of calculateRouteInternal that replaces the enroute legs
ReplaceRoute(r, type, calculatedRoute, fetchAirways, useSetAltitude, calcRange, fromIndex, toIndex) ==
  LET entries == r.flightplan.entries
      n == Len(entries)
      new == [k \in 1 .. Len(calculatedRoute) |->
                [Entry(calculatedRoute[k].ident) EXCEPT
                   !.airway = IF fetchAirways THEN calculatedRoute[k].airway ELSE ""]]
      replaced == IF calcRange
                  THEN SubSeq(entries, 1, fromIndex + 1) \o new
                       \o SubSeq(entries, toIndex + 1, n)
                  ELSE <<entries[1]>> \o new \o <<entries[n]>>
      r1 == [r EXCEPT !.flightplan.routeType = type,
                      !.flightplan.entries = replaced]
      r2 == [r1 EXCEPT !.flightplan = RemoveNoSaveEntries(r1.flightplan)]
      r3 == LoadProceduresFromFlightplan(CreateRouteLegsFromFlightplan(r2), TRUE)
  IN UpdateAirwaysAndAltitude(RemoveDuplicateRouteLegs(r3), ~useSetAltitude, FALSE)

\* Variant of calculateRouteInternal that sets the route type before it knows
\* whether the path is accepted
CalculateRouteSetsTypeFirst(r, accepted, type, calculatedRoute, fetchAirways, useSetAltitude, calcRange, fromIndex, toIndex) ==
  IF accepted
  THEN ReplaceRoute(r, type, calculatedRoute, fetchAirways, useSetAltitude,
                    calcRange, fromIndex, toIndex)
  ELSE [r EXCEPT !.flightplan.routeType = type]

\* RouteController::calculateRouteInternal, the route it leaves
CalculateRouteInternal(r, accepted, type, calculatedRoute, fetchAirways, useSetAltitude, calcRange, fromIndex, toIndex) ==
  IF accepted
  THEN ReplaceRoute(r, type, calculatedRoute, fetchAirways, useSetAltitude,
                    calcRange, fromIndex, toIndex)
  ELSE r

\* calculateRadionav, calculateHighAlt, calculateLowAlt and calculateSetAlt:
\* route type, fetch airways, use altitude
CalculationModes(r) ==
  {<<"VOR", FALSE, FALSE>>, <<"HIGH_ALTITUDE", TRUE, FALSE>>,
   <<"LOW_ALTITUDE", TRUE, FALSE>>,
   <<IF r.flightplan.cruisingAltitude >= 20000 THEN "HIGH_ALTITUDE" ELSE "LOW_ALTITUDE",
     TRUE, TRUE>>}

\* RouteController::calculateRadionav / calculateHighAlt / calculateLowAlt /
\* calculateSetAlt with calculateRouteInternal; found, calculatedRoute and
\* distance are the result of the route finder
CalculateRouteRecorded(withPath) ==
  \E mode \in CalculationModes(route), calcRange \in BOOLEAN :
  \E fromIndex \in (IF calcRange
                    THEN {Max({StartIndexAfterProcedure(route), i}) : i \in Rows(route.legs)}
                    ELSE {-1}),
     toIndex \in (IF calcRange
                  THEN {Min({DestinationIndexBeforeProcedure(route), i}) : i \in Rows(route.legs)}
                  ELSE {-1}) :
  \E found \in BOOLEAN :
  \E calculatedRoute \in (IF found THEN CalculatedRoutes ELSE {<<>>}),
     directDistance \in (IF found THEN 0 .. MaxDistance ELSE {0}) :
  \E distance \in (IF found THEN directDistance .. MaxDistance ELSE {0}) :
    LET accepted == found /\ RatioAccepted(distance, directDistance)
        r == CalculateRouteInternal(route, accepted, mode[1], calculatedRoute, mode[2],
                                    mode[3], calcRange, fromIndex, toIndex)
        result == [name |-> "calculateRoute", ret |-> accepted, found |-> found,
                   distance |-> distance, directDistance |-> directDistance]
        \* withPath: an accepted calculation also records the path and the range
        opRecord == IF accepted /\ withPath
                    THEN result @@ [calculatedRoute |-> calculatedRoute,
                                    calcRange |-> calcRange,
                                    fromIndex |-> fromIndex, toIndex |-> toIndex]
                    ELSE result
    IN /\ RouteSize(route) >= 2
       /\ calcRange => fromIndex < toIndex
       /\ routeAltDelayTimer' = FALSE
       /\ IF accepted
          THEN /\ NumPlanEntries(r) <= MaxEntries + 1
               /\ Commit(r, PreChange(route), "EDIT", opRecord)
               /\ SyncWidgets(r)
          ELSE /\ route' = r
               /\ UNCHANGED <<routeNetworkQueries, approachTree>>
               /\ op' = opRecord
               /\ track' = NoTrack
               /\ UNCHANGED <<undoVars, fileVars, widgetVars, saved>>

CalculateRoute == CalculateRouteRecorded(FALSE)

\* Route::removeRouteLegs: the legs between the first and the last one that
\* belong to no procedure are removed from the route and from the plan
RemoveRouteLegs(r) ==
  LET drop == {i \in Rows(r.legs) :
                 i > 0 /\ i < RouteSize(r) - 1 /\ ~IsAnyProcedure(At(r.legs, i))}
  IN [r EXCEPT !.legs = SeqFilter(r.legs, drop),
               !.flightplan.entries = SeqFilter(r.flightplan.entries, drop)]

\* RouteController::calculateDirect, the route it leaves
CalculateDirectInternal(r) ==
  UpdateAirwaysAndAltitude(RemoveRouteLegs([r EXCEPT !.flightplan.routeType = "DIRECT"]),
                           FALSE, FALSE)

\* RouteController::calculateDirect
CalculateDirect ==
  LET r == CalculateDirectInternal(route)
  IN /\ routeAltDelayTimer' = FALSE
     /\ Commit(r, PreChange(route), "EDIT",
               [name |-> "calculateDirect", wasEmpty |-> RouteIsEmpty(route)])
     /\ SyncWidgets(r)

----------------------------------------------------------------------------
(* Switching the navigation database *)

\* Variant of initQueries that leaves the queries as they are
InitQueriesMissing == UNCHANGED routeNetworkQueries

\* RouteNetwork::initQueries of routeNetworkRadio and routeNetworkAirway
InitQueries == routeNetworkQueries' = TRUE

\* RouteNetwork::deInitQueries of routeNetworkRadio and routeNetworkAirway
DeInitQueries == routeNetworkQueries' = FALSE

\* RouteController::preDatabaseLoad
PreDatabaseLoad ==
  /\ DeInitQueries
  /\ routeAltDelayTimer' = FALSE
  /\ op' = [name |-> "preDatabaseLoad"]
  /\ track' = NoTrack
  /\ UNCHANGED <<route, undoVars, fileVars, widgetVars, saved, approachTree>>

\* The route postDatabaseLoad rebuilds from the flight plan before it looks
\* at the start position
PostDatabaseLoadInternal(r) ==
  LET r1 == ClearProcedureLegs(ClearProcedures(r, PROCEDURE_ALL), PROCEDURE_ALL,
                               TRUE, TRUE)
      r2 == LoadProceduresFromFlightplan(CreateRouteLegsFromFlightplan(r1), FALSE)
  IN UpdateAirwaysAndAltitude(r2, FALSE, FALSE)

\* RouteController::postDatabaseLoad; the start position is set as an
\* undoable change of its own (updateStartPositionBestRunway with undo)
PostDatabaseLoad ==
  LET r1 == PostDatabaseLoadInternal(route)
      fp == r1.flightplan
      setStart == /\ fp.entries # <<>>
                  /\ fp.entries[1].waypointType = "AIRPORT"
                  /\ fp.departureParkingName = ""
                  /\ HasValidDeparture(r1)
                  /\ ~HasDepartureStart(r1)
      r == IF setStart THEN UpdateStartPositionBestRunway(r1, FALSE) ELSE r1
      opRecord == [name |-> "postDatabaseLoad", start |-> setStart]
  IN /\ InitQueries
     /\ route' = r
     /\ IF setStart
        THEN /\ undoIndex < MaxUndoIndex
             /\ SetUndoState(PostChange(UndoState, PreChange(r1), "EDIT", r))
             /\ track' = TrackChange(UndoState, "EDIT", r)
        ELSE /\ track' = NoTrack
             /\ UNCHANGED undoVars
     /\ SyncWidgets(r)
     /\ routeAltDelayTimer' = TRUE
     /\ op' = opRecord
     /\ UNCHANGED <<fileVars, saved, approachTree>>

----------------------------------------------------------------------------
(* Specifications *)

Next ==
  \/ NewFlightplan
  \/ LoadFlightplan
  \/ SaveFlightplan
  \/ RouteAltChanged
  \/ RouteAltChangedDelayed
  \/ RouteTypeChanged
  \/ RouteAdd
  \/ RouteReplace
  \/ RouteDelete
  \/ MoveSelectedLegs
  \/ DeleteSelectedLegs
  \/ RouteSetDeparture
  \/ RouteSetDestination
  \/ RouteAttachProcedure
  \/ CalculateRoute
  \/ ReverseRoute
  \/ RouteAddOutOfRange
  \/ InsertFlightplan
  \/ ChangeRouteUndo
  \/ ChangeRouteRedo
  \/ PreDatabaseLoad
  \/ PostDatabaseLoad
  \/ MoveSelectedRows
  \/ SaveFlighplanAs
  \/ LoadFlpFlightplan
  \/ CalculateDirect
  \/ RestoreState
  \/ ShowApproaches
  \/ SelectItem
  \/ ItemDoubleClicked
  \/ ExpandItem
  \/ ContextMenu
  \/ ExportFlighplanAsClean

Spec == Init /\ [][Next]_vars

\* The operations that splice legs and procedures
Edit ==
  \/ RouteAdd
  \/ RouteReplace
  \/ RouteDelete
  \/ MoveSelectedLegs
  \/ DeleteSelectedLegs
  \/ RouteSetDeparture
  \/ RouteSetDestination
  \/ RouteAttachProcedure

\* Editing a loaded or empty plan; edits stop at MaxEditIndex commands
NextEdit ==
  \/ LoadFlightplan
  \/ undoIndex < MaxEditIndex /\ Edit

SpecEdit == Init /\ [][NextEdit]_vars

\* Round trips: a change is undone right away and then redone
NextRoundTrip ==
  \/ LoadReadableFlightplan
  \/ /\ undoIndex < MaxEditIndex
     /\ track.stage # 2
     /\ Edit
  \/ track.stage = 1 /\ ChangeRouteUndo
  \/ track.stage = 2 /\ ChangeRouteRedo

SpecRoundTrip == Init /\ [][NextRoundTrip]_vars

\* The undo stack and the clean state: undoable changes (the altitude changes
\* merge), undo, redo, save, new and load.  Changes of the widgets while the
\* route is empty push no command and are left out.
NextUndo ==
  \/ NewFlightplan
  \/ LoadReadableFlightplan
  \/ SaveFlightplan
  \/ ~RouteIsEmpty(route) /\ RouteAltChanged
  \/ undoIndex < MaxEditIndex /\ RouteSetDeparture
  \/ ChangeRouteUndo
  \/ ChangeRouteRedo

SpecUndo == Init /\ [][NextUndo]_vars

\* Route calculation
NextCalc ==
  \/ LoadFlightplan
  \/ RouteAltChangedDelayed
  \/ /\ undoIndex < MaxEditIndex
     /\ \/ RouteAltChanged
        \/ CalculateRoute

SpecCalc == Init /\ [][NextCalc]_vars

\* Calculations on loaded plans, each accepted one recorded with its path
NextPath ==
  \/ LoadReadableFlightplan
  \/ undoIndex < MaxEditIndex /\ CalculateRouteRecorded(TRUE)

SpecPath == Init /\ [][NextPath]_vars

\* Reversing and direct calculation on new, loaded and reversed plans
NextEmpty ==
  \/ NewFlightplan
  \/ LoadReadableFlightplan
  \/ SaveFlightplan
  \/ undoIndex < MaxEditIndex /\ ReverseRoute
  \/ undoIndex < MaxEditIndex /\ CalculateDirect

SpecEmpty == Init /\ [][NextEmpty]_vars

\* The approach tree from the start of a session on
NextTree ==
  \/ RestoreState
  \/ ShowApproaches
  \/ SelectItem
  \/ ItemDoubleClicked
  \/ ExpandItem
  \/ ContextMenu

SpecTree == Init /\ [][NextTree]_vars

\* Reversing loaded and edited plans; a reverse that follows a reverse merges
NextReverse ==
  \/ LoadReadableFlightplan
  \/ ReverseRoute
  \/ /\ undoIndex < MaxEditIndex
     /\ \/ RouteAdd
        \/ RouteDelete
        \/ MoveSelectedLegs
        \/ RouteAttachProcedure

SpecReverse == Init /\ [][NextReverse]_vars

\* Adding entries for any leg index a caller passes; nothing follows the end
\* of the program
NextInsert ==
  /\ op.name # "terminated"
  /\ \/ LoadReadableFlightplan
     \/ RouteAddOutOfRange
     \/ RouteAdd
     \/ undoIndex < MaxEditIndex /\ RouteDelete

SpecInsert == Init /\ [][NextInsert]_vars

\* Procedures are attached to a loaded plan, or to one that lost an entry,
\* and selections are deleted
NextAttach ==
  \/ LoadReadableFlightplan
  \/ undoIndex = 0 /\ RouteDelete
  \/ undoIndex < MaxEditIndex /\ RouteAttachProcedure
  \/ DeleteSelectedLegs

SpecAttach == Init /\ [][NextAttach]_vars

\* Files are loaded and inserted, readable or not, into plans that were
\* saved or changed
NextLoad ==
  \/ LoadFlightplan
  \/ InsertFlightplan
  \/ SaveFlightplan
  \/ undoIndex < MaxEditIndex /\ RouteDelete

SpecLoad == Init /\ [][NextLoad]_vars

\* The database is switched while plans are loaded, shortened and
\* calculated. The switch is one operation of the database manager that
\* runs to completion: after preDatabaseLoad no other handler is accepted
\* before postDatabaseLoad
NextDatabase ==
  \/ op.name = "preDatabaseLoad" /\ PostDatabaseLoad
  \/ op.name # "preDatabaseLoad" /\ PreDatabaseLoad
  \/ op.name # "preDatabaseLoad" /\ LoadReadableFlightplan
  \/ op.name # "preDatabaseLoad" /\ undoIndex < MaxEditIndex /\ CalculateRoute
  \/ op.name # "preDatabaseLoad" /\ undoIndex < MaxEditIndex /\ RouteDelete

SpecDatabase == Init /\ [][NextDatabase]_vars

\* The undo limit: legs are moved, the departure is set and the altitude is
\* changed until the stack is full and beyond, and the commands are undone
NextLimit ==
  \/ LoadReadableFlightplan
  \/ undoIndex <= 1 /\ MoveSelectedLegs
  \/ RouteSetDeparture
  \/ ~RouteIsEmpty(route) /\ RouteAltChanged
  \/ ChangeRouteUndo

SpecLimit == Init /\ [][NextLimit]_vars

\* Moving any selection in a loaded plan, with its procedure or after the
\* procedure legs were deleted
NextMove ==
  \/ LoadReadableFlightplan
  \/ undoIndex = 0 /\ DeleteSelectedLegs
  \/ MoveSelectedRows

SpecMove == Init /\ [][NextMove]_vars

\* Saving, with and without a new name, a plan that was loaded and lost
\* its first or last entry; the writer may fail
\* Plans of every format are loaded, changed, saved and exported
NextExport ==
  \/ LoadReadableFlightplan
  \/ LoadFlpFlightplan
  \/ SaveFlightplan
  \/ undoIndex < MaxEditIndex /\ RouteDelete
  \/ ExportFlighplanAsClean

SpecExport == Init /\ [][NextExport]_vars

NextSave ==
  \/ LoadReadableFlightplan
  \/ SaveFlightplan
  \/ SaveFlighplanAs
  \/ undoIndex < MaxEditIndex /\ RouteDelete

SpecSave == Init /\ [][NextSave]_vars

\* Loading files of all formats, readable or not, into empty, loaded and
\* shortened plans
NextFlp ==
  \/ LoadFlightplan
  \/ LoadFlpFlightplan
  \/ undoIndex < MaxEditIndex /\ RouteDelete

SpecFlp == Init /\ [][NextFlp]_vars

\* The altitude timer: the altitude is changed, routes are calculated and
\* the database is switched while the timer may be running.  The event loop
\* delivers the timeout of a running single-shot timer: weak fairness of
\* routeAltChangedDelayed
NextTimer ==
  \/ RouteAltChangedDelayed
  \/ op.name = "preDatabaseLoad" /\ PostDatabaseLoad
  \/ op.name # "preDatabaseLoad" /\ PreDatabaseLoad
  \/ op.name # "preDatabaseLoad" /\ LoadReadableFlightplan
  \/ op.name # "preDatabaseLoad" /\ RouteAltChanged
  \/ op.name # "preDatabaseLoad" /\ undoIndex < MaxEditIndex /\ CalculateRoute

SpecTimer == Init /\ [][NextTimer]_vars /\ WF_vars(RouteAltChangedDelayed)

----------------------------------------------------------------------------
(* Properties *)

\* C1: when a non-merged undoable change has been undone and then redone, the
\* flight plan without its procedure entries (entries and plan data) equals
\* the value it had right after the change.
C1_UndoRedoRestoresValue ==
  track.stage = 3 => PlanValue(route) = track.value

\* a change that altered the plan, also by procedure legs, has been undone and redone
C1_Witness ==
  /\ track.stage = 3
  /\ op.name = "redo"
  /\ undoStack[stackIndex].before # undoStack[stackIndex].after
  /\ \E i \in Rows(route.legs) : IsAnyProcedure(At(route.legs, i))

C3_AcceptedWithinRatio ==
  (op.name = "calculateRoute" /\ op.ret)
    => /\ op.found
       /\ op.directDistance > 0
       /\ op.distance <= MAX_DISTANCE_DIRECT_RATIO * op.directDistance

\* a path longer than the direct connection has been accepted and is in the plan
C3_Witness ==
  /\ op.name = "calculateRoute"
  /\ op.ret
  /\ op.distance > op.directDistance
  /\ stackIndex > 0
  /\ PreChange(route) = undoStack[stackIndex].after

\* C4 as stated: a found path whose ratio of path distance to direct distance
\* does not exceed the threshold, a ratio equal to the threshold included, is
\* accepted: calculateRouteInternal returns false only if no path was found or
\* the ratio exceeded the threshold.
C4_WithinRatioIsAccepted ==
  (/\ op.name = "calculateRoute"
   /\ op.found
   /\ op.directDistance > 0
   /\ op.distance <= MAX_DISTANCE_DIRECT_RATIO * op.directDistance)
    => op.ret

\* C4 amended: whenever calculateRouteInternal returns false, either the
\* finder reported no path or the ratio of path distance to direct distance is
\* not below the threshold (it is the threshold or more, or the direct
\* distance is zero); a found path whose ratio is below the threshold is
\* accepted.
C4_RejectedOnlyFromThreshold ==
  (op.name = "calculateRoute" /\ ~op.ret)
    => \/ ~op.found
       \/ op.directDistance = 0
       \/ op.distance >= MAX_DISTANCE_DIRECT_RATIO * op.directDistance

\* a found path of exactly the threshold ratio has been rejected
C4_Witness ==
  /\ op.name = "calculateRoute"
  /\ ~op.ret
  /\ op.found
  /\ op.directDistance > 0
  /\ op.distance = MAX_DISTANCE_DIRECT_RATIO * op.directDistance

\* C5: a route calculation that fails, because no path is found or because the
\* found path is rejected by the ratio check, leaves the flight plan entries,
\* the route type of the plan, the route legs, the undo stack and undoIndex
\* as they were.
C5_FailedCalculationKeepsRoute ==
  [][(op'.name = "calculateRoute" /\ ~op'.ret)
       => /\ route'.flightplan.entries = route.flightplan.entries
          /\ route'.flightplan.routeType = route.flightplan.routeType
          /\ route'.legs = route.legs
          /\ undoStack' = undoStack
          /\ stackIndex' = stackIndex
          /\ undoIndex' = undoIndex]_vars

\* a found path has been rejected for a plan with an accepted calculation
\* on the undo stack
C5_Witness ==
  /\ op.name = "calculateRoute"
  /\ ~op.ret
  /\ op.found
  /\ undoIndex > 0
  /\ Len(route.legs) > 2

\* The editing operations of the table, the map and the procedure search
EditNames ==
  {"routeAdd", "routeDelete", "routeReplace", "moveSelectedLegs",
   "deleteSelectedLegs", "routeAttachProcedure", "routeSetDeparture",
   "routeSetDestination"}

\* Rows of the legs that carry one of the tags
RowsTagged(r, tags) == {i \in Rows(r.legs) : At(r.legs, i).proc \in tags}

\* The departure procedure legs follow leg 0 directly and the arrival legs
\* precede the last leg directly
ProcedureRangesContiguous(r) ==
  LET departure == RowsTagged(r, PROCEDURE_DEPARTURE)
      arrival == RowsTagged(r, PROCEDURE_ARRIVAL_ALL)
  IN /\ departure = 1 .. Cardinality(departure)
     /\ arrival = (RouteSize(r) - 1 - Cardinality(arrival)) .. (RouteSize(r) - 2)

\* C6: after any sequence of routeAdd, routeDelete, routeReplace, move up or
\* down, delete-selection and attach-procedure operations the procedure legs
\* form contiguous ranges: departure procedure legs directly after index 0,
\* arrival legs directly before the last index, no free leg inside a range or
\* between a range and its airport.
C6_ProcedureRangesContiguous ==
  op.name \in {"routeAdd", "routeDelete", "routeReplace", "moveSelectedLegs",
               "deleteSelectedLegs", "routeAttachProcedure"}
    => ProcedureRangesContiguous(route)

\* C7: after every completed insert, delete, move, replace, set-departure,
\* set-destination or attach operation on a non-empty plan the departure ident
\* and name of the plan are those of leg 0 if leg 0 is an airport and empty
\* otherwise, and the destination ident and name are those of the last leg
\* if it is an airport and empty otherwise.
C7_EndsMatchPlan ==
  (op.name \in EditNames /\ ~RouteIsEmpty(route))
    => LET fp == route.flightplan
           firstLeg == RouteFirst(route)
           lastLeg == RouteLast(route)
       IN /\ fp.departureIdent =
               (IF firstLeg.type = "AIRPORT" THEN firstLeg.ident ELSE "")
          /\ fp.departureAiportName =
               (IF firstLeg.type = "AIRPORT" THEN AirportName(firstLeg.ident) ELSE "")
          /\ fp.destinationIdent =
               (IF lastLeg.type = "AIRPORT" THEN lastLeg.ident ELSE "")
          /\ fp.destinationAiportName =
               (IF lastLeg.type = "AIRPORT" THEN AirportName(lastLeg.ident) ELSE "")

\* an edit has left a waypoint as the last leg of a plan that departs from
\* an airport
C7_Witness ==
  /\ op.name \in {"moveSelectedLegs", "deleteSelectedLegs", "routeReplace", "routeAdd"}
  /\ RouteSize(route) > 1
  /\ RouteFirst(route).type = "AIRPORT"
  /\ RouteLast(route).type # "AIRPORT"
  /\ route.flightplan.destinationIdent = ""
  /\ route.flightplan.departureIdent = RouteFirst(route).ident

\* C8: for every selection the move actions are enabled only if no selected
\* row is a procedure leg, the row above the first selected row (up) or below
\* the last selected row (down) is no procedure leg, and row 0 (up) or the
\* last row (down) is not selected.
C8_MoveNeverAcrossProcedure ==
  \A rows \in Selections(route) :
    /\ LegUpEnabled(route, rows)
         => /\ ~ContainsProc(route, rows)
            /\ 0 \notin rows
            /\ ~IsAnyProcedure(At(route.legs, Min(rows) - 1))
    /\ LegDownEnabled(route, rows)
         => /\ ~ContainsProc(route, rows)
            /\ (RouteSize(route) - 1) \notin rows
            /\ ~IsAnyProcedure(At(route.legs, Max(rows) + 1))

\* C9: deleting a selection with at least one procedure leg removes every
\* leg that carries the tag of a selected procedure leg.
C9_DeleteRemovesWholeProcedure ==
  (op.name = "deleteSelectedLegs" /\ op.tags # {})
    => RowsTagged(route, op.tags) = {}

\* a leg of a procedure of more than one leg was deleted while another leg
\* of it was not selected
C9_Witness ==
  /\ op.name = "deleteSelectedLegs"
  /\ op.tags = {"SID"}
  /\ Cardinality(op.rows) = 1
  /\ route.departureLegs.approachLegs = <<>>
  /\ ~RouteIsEmpty(route)

\* The procedure parts that are removed together with a part
DependentTags(tag) ==
  CASE tag = "SID" -> PROCEDURE_DEPARTURE
    [] tag = "STAR" -> PROCEDURE_STAR_ALL
    [] tag \in {"APPROACH", "MISSED"} -> PROCEDURE_ARRIVAL
    [] OTHER -> {tag}

\* The selection of a delete that C10 is about: legs of one procedure tag,
\* neither the first nor the last row
OneTagSelection(r, rows, tags) ==
  /\ Cardinality(tags) = 1
  /\ \A row \in rows : At(r.legs, row).proc \in tags
  /\ 0 \notin rows
  /\ (RouteSize(r) - 1) \notin rows

\* C10 as stated: when the deleted selection consists of legs of one
\* procedure tag, and holds neither index 0 nor the last index, the procedure
\* legs removed are those of that tag only; the legs of every other tag stay.
C10_OnlySelectedTagRemoved ==
  [][(op'.name = "deleteSelectedLegs" /\ OneTagSelection(route, op'.rows, op'.tags))
       => \A tag \in PROCEDURE_ALL \ op'.tags :
            Cardinality(RowsTagged(route', {tag})) = Cardinality(RowsTagged(route, {tag}))]_vars

\* C10 amended: when the deleted selection consists of legs of one procedure
\* tag, and holds neither index 0 nor the last index, the procedure legs
\* removed are those of that tag and of the parts removed together with it
\* (the SID transition with the SID, the STAR transition with the STAR, the
\* transition, the approach and the missed approach with an approach or
\* missed approach leg); the legs of every other tag stay.
C10_OnlyDependentTagsRemoved ==
  [][(op'.name = "deleteSelectedLegs" /\ OneTagSelection(route, op'.rows, op'.tags))
       => \A tag \in PROCEDURE_ALL \ UNION {DependentTags(t) : t \in op'.tags} :
            Cardinality(RowsTagged(route', {tag})) = Cardinality(RowsTagged(route, {tag}))]_vars

\* an approach leg was deleted from a plan with a STAR, which is still there
C10_Witness ==
  /\ op.name = "deleteSelectedLegs"
  /\ op.tags = {"APPROACH"}
  /\ RowsTagged(route, PROCEDURE_STAR) # {}
  /\ RowsTagged(route, PROCEDURE_ARRIVAL) = {}

\* C11 as stated: after reverseRoute on any plan the entries that are no
\* procedure entries appear in exactly the reverse of their previous order,
\* the former destination is the departure and the former departure is the
\* destination, and the route holds no procedure leg of any category.
C11_ReverseReversesPlan ==
  (op.name = "reverseRoute")
    => /\ Idents(route.flightplan.entries) = Reverse(op.before.plain)
       /\ Idents(route.legs) = Reverse(op.before.plain)
       /\ \A row \in Rows(route.legs) : ~IsAnyProcedure(At(route.legs, row))
       /\ \A row \in Rows(route.flightplan.entries) :
            ~At(route.flightplan.entries, row).noSave
       /\ route.flightplan.departureIdent = op.before.destinationIdent
       /\ route.flightplan.destinationIdent = op.before.departureIdent

\* C11 amended: after reverseRoute on any plan the entries that are no
\* procedure entries appear in exactly the reverse of their previous order
\* and the route holds no procedure leg of any category; if the first and the
\* last entry of the plan were no procedure entries and the departure and the
\* destination of the plan were those of its first and last entry, the former
\* destination is the departure and the former departure is the destination.
C11_ReverseSwapsPlainEnds ==
  (op.name = "reverseRoute")
    => /\ Idents(route.flightplan.entries) = Reverse(op.before.plain)
       /\ Idents(route.legs) = Reverse(op.before.plain)
       /\ \A row \in Rows(route.legs) : ~IsAnyProcedure(At(route.legs, row))
       /\ \A row \in Rows(route.flightplan.entries) :
            ~At(route.flightplan.entries, row).noSave
       /\ (op.before.plainEnds /\ op.before.endsMatch)
            => /\ route.flightplan.departureIdent = op.before.destinationIdent
               /\ route.flightplan.destinationIdent = op.before.departureIdent

\* a plan with procedure legs and different ends was reversed
C11_Witness ==
  /\ op.name = "reverseRoute"
  /\ Len(op.before.idents) > Len(op.before.plain)
  /\ Len(op.before.plain) >= 3
  /\ op.before.departureIdent # op.before.destinationIdent
  /\ op.before.departureIdent # ""
  /\ op.before.plainEnds
  /\ op.before.endsMatch
  /\ route.flightplan.departureIdent = op.before.destinationIdent

\* C12 as stated: reverseRoute applied twice to any plan restores the
\* original sequence of entry identifiers and the original departure and
\* destination idents; the airway names need not be restored.
C12_ReverseTwiceRestoresEntries ==
  (op.name = "reverseRoute" /\ op.twice)
    => /\ Idents(route.flightplan.entries) = op.first.idents
       /\ route.flightplan.departureIdent = op.first.departureIdent
       /\ route.flightplan.destinationIdent = op.first.destinationIdent

\* C12 amended: reverseRoute applied twice to any plan restores the original
\* sequence of the identifiers of the entries that are no procedure entries
\* and, if the first and the last entry of the plan were no procedure entries
\* and the departure and the destination of the plan were those of its first
\* and last entry, the original departure and destination idents; the airway
\* names need not be restored.
C12_ReverseTwiceRestoresPlainEntries ==
  (op.name = "reverseRoute" /\ op.twice)
    => /\ Idents(route.flightplan.entries) = op.first.plain
       /\ (op.first.plainEnds /\ op.first.endsMatch)
            => /\ route.flightplan.departureIdent = op.first.departureIdent
               /\ route.flightplan.destinationIdent = op.first.destinationIdent

\* a plan of four entries with an airway and an approach was reversed twice:
\* the entries that are no procedure entries and the ends are back
C12_Witness ==
  /\ op.name = "reverseRoute"
  /\ op.twice
  /\ Len(op.first.plain) = 4
  /\ Len(op.first.idents) > 4
  /\ op.first.plainEnds
  /\ op.first.endsMatch
  /\ op.first.departureIdent # op.first.destinationIdent
  /\ route.flightplan.departureIdent = op.first.departureIdent
  /\ HasAirway(route.flightplan)

\* C13: inserting an entry at an index that is negative or exceeds the
\* current size + 1 fails as a no-op: the flight plan entries, the route legs
\* and the undo stack are unchanged and an invalid index is reported.
C13_InvalidIndexIsNoOp ==
  [][(/\ op'.name \in {"routeAdd", "terminated"}
      /\ (op'.insertIndex < 0 \/ op'.insertIndex > RouteSize(route) + 1))
       => /\ route'.flightplan.entries = route.flightplan.entries
          /\ route'.legs = route.legs
          /\ UNCHANGED undoVars
          /\ op'.reported]_vars

\* an entry was added at index -1: it is the first entry of the plan and one
\* more command is on the undo stack
C13_Witness ==
  /\ op.name = "routeAdd"
  /\ op.insertIndex = -1
  /\ RouteSize(route) >= 2
  /\ undoIndex > 0

\* C14: after inserting an entry at index i (routeAddInternal) the entry at i
\* and the entry at i + 1, if it exists, have an empty airway name.
C14_AirwaysErasedAtInsert ==
  (op.name = "routeAdd")
    => \A i \in {op.insertIndex, op.insertIndex + 1} \cap Rows(route.flightplan.entries) :
         At(route.flightplan.entries, i).airway = ""

\* an entry was inserted in front of an entry that had an airway name
C14_Witness ==
  /\ op.name = "routeAdd"
  /\ op.insertIndex + 1 \in Rows(route.flightplan.entries)
  /\ stackIndex > 0
  /\ LET before == undoStack[stackIndex].before.entries
     IN /\ op.insertIndex \in Rows(before)
        /\ At(before, op.insertIndex).airway = "V1"
        /\ At(route.flightplan.entries, op.insertIndex + 1).ident =
             At(before, op.insertIndex).ident

\* C15: routeDelete(i) on a plan without procedures removes exactly the entry
\* at i, keeps all other entries in their previous relative order (the size
\* decreases by one), and leaves the entry that now follows the gap (the new
\* index i) with an empty airway name.
C15_DeleteRemovesOneEntry ==
  [][(/\ op'.name = "routeDelete"
      /\ \A row \in Rows(route.legs) : ~IsAnyProcedure(At(route.legs, row)))
       => LET rest == RemoveAt(route.flightplan.entries, op'.index)
              entries == route'.flightplan.entries
          IN /\ Len(entries) = Len(route.flightplan.entries) - 1
             /\ RouteSize(route') = RouteSize(route) - 1
             /\ Idents(route'.legs) = Idents(RemoveAt(route.legs, op'.index))
             /\ \A row \in Rows(entries) :
                  IF row = op'.index
                  THEN entries[row + 1] = [rest[row + 1] EXCEPT !.airway = ""]
                  ELSE entries[row + 1] = rest[row + 1]]_vars

\* an entry was deleted from a plan without procedures in front of an entry
\* that had an airway name
C15_Witness ==
  /\ op.name = "routeDelete"
  /\ stackIndex > 0
  /\ LET before == undoStack[stackIndex].before
     IN /\ before.properties = NoProperties
        /\ Len(before.entries) = RouteSize(route) + 1
        /\ op.index + 1 \in Rows(before.entries)
        /\ At(before.entries, op.index + 1).airway = "V1"
        /\ At(route.flightplan.entries, op.index).ident = At(before.entries, op.index + 1).ident
        /\ At(route.flightplan.entries, op.index).airway = ""

\* The free enroute legs of a plan: the entries that are neither procedure
\* entries nor the airport at the start or at the end of the plan
FreeEnrouteIdents(fp) ==
  LET plain == RemoveNoSaveEntries(fp).entries
      n == Len(plain)
      ends == {k \in {1, n} \cap (1 .. n) : plain[k].waypointType = "AIRPORT"}
  IN Idents(SeqFilter(plain, {k - 1 : k \in ends}))

\* C16: attaching a procedure and then immediately detaching the same
\* procedure category (deleting a selection of its legs) restores the sequence
\* of free enroute legs, identifiers and order, to its content before the
\* attachment; airway names may differ.
C16_AttachDetachRestoresEnroute ==
  [][(/\ op.name = "routeAttachProcedure"
      /\ op'.name = "deleteSelectedLegs"
      /\ op'.tags # {}
      /\ op'.tags \subseteq (CASE op.mapType = "DEPARTURE" -> PROCEDURE_DEPARTURE
                                [] op.mapType = "STAR" -> PROCEDURE_STAR_ALL
                                [] OTHER -> PROCEDURE_ARRIVAL)
      /\ \A row \in op'.rows : IsAnyProcedure(At(route.legs, row)))
       => FreeEnrouteIdents(route'.flightplan)
            = FreeEnrouteIdents(undoStack[stackIndex].before)]_vars

\* an approach was attached to a plan with a waypoint and its legs were
\* deleted again; the waypoint is still there
C16_Witness ==
  /\ op.name = "deleteSelectedLegs"
  /\ op.tags \cap PROCEDURE_ARRIVAL # {}
  /\ stackIndex > 1
  /\ FreeEnrouteIdents(undoStack[stackIndex - 1].before) # <<>>
  /\ FreeEnrouteIdents(route.flightplan) = FreeEnrouteIdents(undoStack[stackIndex - 1].before)
  /\ undoStack[stackIndex - 1].after.properties.approach # ""
  /\ undoStack[stackIndex - 1].before.properties.approach = ""
  /\ route.flightplan.properties.approach = ""

\* C17: undo and redo never push a command: changeRouteUndo changes undoIndex
\* by exactly -1 and changeRouteRedo by exactly +1, and neither changes the
\* number of commands on the undo stack nor undoIndexClean.
C17_UndoRedoPushNothing ==
  [][/\ op'.name = "undo" => undoIndex' = undoIndex - 1
     /\ op'.name = "redo" => undoIndex' = undoIndex + 1
     /\ op'.name \in {"undo", "redo"}
          => /\ Len(undoStack') = Len(undoStack)
             /\ undoStack' = undoStack
             /\ undoIndexClean' = undoIndexClean]_vars

\* a change was undone and redone after the plan had been saved with one
\* command on the stack
C17_Witness ==
  /\ op.name = "redo"
  /\ Len(undoStack) = 2
  /\ stackIndex = 2
  /\ undoIndex = 2
  /\ undoIndexClean = 1

C19_FailedLoadChangesNothing ==
  [][(op'.name \in {"loadFlightplan", "insertFlightplan"} /\ op'.thrown)
       => /\ ~op'.ret
          /\ route' = route
          /\ UNCHANGED fileVars
          /\ UNCHANGED undoVars]_vars

\* a file that cannot be read was given to insertFlightplan while the plan
\* came from a file and had unsaved changes on the undo stack
C19_Witness ==
  /\ op.name = "insertFlightplan"
  /\ op.thrown
  /\ routeFilename # ""
  /\ ~RouteIsEmpty(route)
  /\ undoStack # <<>>
  /\ HasChanged

C21_UndoLimit ==
  [][/\ Len(undoStack') <= ROUTE_UNDO_LIMIT
     /\ stackIndex' \in 0 .. Len(undoStack')
     /\ (/\ undoIndex' = undoIndex + 1
         /\ op'.name # "redo"
         /\ stackIndex = ROUTE_UNDO_LIMIT)
          => /\ Len(undoStack') = ROUTE_UNDO_LIMIT
             /\ stackIndex' = ROUTE_UNDO_LIMIT
             /\ SubSeq(undoStack', 1, ROUTE_UNDO_LIMIT - 1) = Tail(undoStack)
     /\ op'.name = "undo"
          => /\ stackIndex > 0
             /\ PlanValue(route') = [undoStack[stackIndex].before EXCEPT !.fileFormat = "any"]]_vars

\* a command was pushed onto a full stack and then undone: the oldest command
\* is gone, the controller's own index is above the number of commands
C21_Witness ==
  /\ op.name = "undo"
  /\ Len(undoStack) = ROUTE_UNDO_LIMIT
  /\ stackIndex = ROUTE_UNDO_LIMIT - 1
  /\ undoIndex = stackIndex + 1

\* C22: after newFlightplan (clearRoute) in any state the route has no legs
\* and no procedures, the undo stack is empty (neither undo nor redo is
\* possible), undoIndex = undoIndexClean = 0 and hasChanged() is false.
C22_NewFlightplanClearsAll ==
  [][op'.name = "newFlightplan"
       => /\ route'.legs = <<>>
          /\ route'.flightplan.entries = <<>>
          /\ IsEmptyProcedure(route'.departureLegs)
          /\ IsEmptyProcedure(route'.starLegs)
          /\ IsEmptyProcedure(route'.arrivalLegs)
          /\ route'.flightplan.properties = NoProperties
          /\ undoStack' = <<>>
          /\ stackIndex' = 0
          /\ undoIndex' = 0
          /\ undoIndexClean' = 0
          /\ ~HasChanged']_vars

\* a new plan was made from a plan with legs whose changes were on the undo
\* stack and not saved
C22_Witness ==
  /\ op.name = "newFlightplan"
  /\ op.hadLegs
  /\ op.hadCommands
  /\ op.wasChanged

\* C23: reverseRoute moves airway names with their segments: where the
\* segment X -> Y carried airway W before the reversal (W stored on Y), the
\* segment Y -> X carries W afterwards (W stored on X), for plans of every
\* size and for the first and the last segment too, and no entry keeps an
\* airway name of a segment it no longer terminates.
C23_ReverseMovesAirways ==
  [][op'.name = "reverseRoute"
       => LET old == PreChange(route).entries
              new == route'.flightplan.entries
              n == Len(old)
          IN /\ Len(new) = n
             /\ n > 0 => new[1].airway = ""
             /\ \A i \in 2 .. n : new[n + 2 - i].airway = old[i].airway]_vars

\* a plan with an airway segment was reversed
C23_Witness ==
  /\ op.name = "reverseRoute"
  /\ ~op.twice
  /\ HasAirway(route.flightplan)
  /\ Len(route.flightplan.entries) = 3

\* The identifier in front of the entry with the given identifier, nothing
\* for the first entry
Predecessor(entries, ident) ==
  LET k == CHOOSE i \in 1 .. Len(entries) : entries[i].ident = ident
  IN IF k = 1 THEN "" ELSE entries[k - 1].ident

\* C24: after a move up or down of any enabled selection (single row, block
\* or rows that are not adjacent), every entry whose predecessor in the
\* sequence differs from its predecessor before the move has an empty airway
\* name.
C24_MoveClearsStaleAirways ==
  [][op'.name = "moveSelectedLegs"
       => LET old == route.flightplan.entries
              new == route'.flightplan.entries
          IN \A k \in 1 .. Len(new) :
               Predecessor(new, new[k].ident) # Predecessor(old, new[k].ident)
                 => new[k].airway = ""]_vars

\* rows that are not adjacent were moved in a plan with an airway segment
C24_Witness ==
  /\ op.name = "moveSelectedLegs"
  /\ \E row \in op.rows : row + 1 \notin op.rows /\ \E other \in op.rows : other > row
  /\ HasAirway(route.flightplan)

\* C25: a failed save (saveFlightplan or saveFlighplanAs returning false
\* because the writer throws) leaves the controller state as before the
\* call: routeFilename, routeFileFormat, fileDeparture, fileDestination,
\* fileIfrVfr, undoIndexClean and therefore hasChanged() are unchanged.
C25_FailedSaveChangesNothing ==
  [][(op'.name \in {"saveFlightplan", "saveFlighplanAs"} /\ ~op'.ret)
       => /\ UNCHANGED fileVars
          /\ undoIndexClean' = undoIndexClean
          /\ HasChanged' = HasChanged]_vars

\* a save failed for a plan that came from a file and was changed since
C25_Witness ==
  /\ op.name \in {"saveFlightplan", "saveFlighplanAs"}
  /\ ~op.ret
  /\ undoStack # <<>>
  /\ HasChanged
  /\ fileDeparture # ""

\* C26: loadFlightplan(filename) returns true only if the route was actually
\* replaced by the plan read from the file (the file is the one the
\* controller names, its entries are the plan, the undo stack is empty);
\* whenever the plan is not loaded (read error, or an FLP plan whose route
\* string cannot be resolved) it returns false.
C26_TrueOnlyIfLoaded ==
  [][(op'.name = "loadFlightplan" /\ op'.ret)
       => /\ routeFilename' = op'.filename
          /\ Idents(RemoveNoSaveEntries(route'.flightplan).entries)
               = Idents(FileFlightplan(op'.filename).entries)
          /\ undoStack' = <<>>
          /\ ~HasChanged']_vars

\* an FLP file was given to loadFlightplan while the plan of another file
\* was in the table
C26_Witness ==
  /\ op.name = "loadFlightplan"
  /\ op.filename = "e.flp"
  /\ routeFilename \notin {"", "e.flp"}

\* C27: after a successful save at undo position k, hasChanged() is false;
\* n >= 1 further non-merged changes make it true, and it is false again
\* exactly when the position is back at k (after undoing those n changes, or
\* after n undos and n redos); once a change is pushed while the position
\* is below k, the saved state is on the discarded redo branch and
\* hasChanged() stays true under every undo and redo until the next save,
\* new plan or load.  The position is the index of the QUndoStack, k its
\* clean index, which is -1 once the saved state cannot be reached.
C27_ChangedFollowsSavedPosition ==
  [][/\ HasChanged' <=> (stackClean' = -1 \/ stackClean' # stackIndex')
     /\ (op'.name = "saveFlightplan" /\ op'.ret)
          => (~HasChanged' /\ stackClean' = stackIndex')
     /\ (undoIndex' = undoIndex + 1 /\ op'.name # "redo") => HasChanged'
     /\ (/\ stackIndex < stackClean
         /\ undoStack' # undoStack
         /\ op'.name \notin {"newFlightplan", "loadFlightplan"})
          => (stackClean' = -1 /\ HasChanged')
     /\ (stackClean = -1 /\ op'.name \in {"undo", "redo"}) => HasChanged']_vars

\* a plan was saved with two commands on the stack, one was undone and a
\* new change was pushed: undo and redo no longer reach the saved state
C27_Witness ==
  /\ op.name \in {"undo", "redo"}
  /\ stackClean = -1
  /\ undoIndexClean = -1
  /\ stackIndex < Len(undoStack)
  /\ HasChanged

\* C28: every altitude change (routeAltChanged) is eventually followed by
\* the delayed update routeAltChangedDelayed, given that the single-shot
\* timer fires when it is running: no other operation (route calculation
\* with beforeRouteCalc, database reload) cancels the pending update without
\* performing or rescheduling it.  A database switch that has begun is
\* taken to complete: preDatabaseLoad is followed by postDatabaseLoad.
C28_AltitudeChangeLeadsToDelayedUpdate ==
  ([]<>(op.name # "preDatabaseLoad"))
    => ((op.name = "routeAltChanged") ~> (op.name = "routeAltChangedDelayed"))

\* a calculation that found no route has stopped the timer after an
\* altitude change, the last command on the stack
C28_Witness ==
  /\ op.name = "calculateRoute"
  /\ ~op.ret
  /\ ~routeAltDelayTimer
  /\ stackIndex > 0
  /\ undoStack[stackIndex].type = "ALTITUDE"



\* Identifiers of the entries that are not procedure entries
PlainIdents(entries) ==
  Idents(SeqFilter(entries, {i \in Rows(entries) : At(entries, i).noSave}))

RECURSIVE CollapsedIdents(_)
\* A list of identifiers with every repetition of the one before it removed
CollapsedIdents(s) ==
  IF Len(s) <= 1 THEN s
  ELSE LET rest == CollapsedIdents(Tail(s))
       IN IF Head(s) = Head(rest) THEN rest ELSE <<Head(s)>> \o rest

\* What the claim announces for an accepted calculation o on the entries
PathReplacesSpan(entries, o) ==
  LET n == Len(entries)
      path == Idents(o.calculatedRoute)
  IN IF o.calcRange
     THEN PlainIdents(SubSeq(entries, 1, o.fromIndex + 1)) \o path
          \o PlainIdents(SubSeq(entries, o.toIndex + 1, n))
     ELSE <<entries[1].ident>> \o path \o <<entries[n].ident>>

\* C29: an accepted route calculation replaces the free enroute span by the
\* path: after a full calculation the non-procedure entries are the previous
\* first entry, one entry per path node in path order and the previous last
\* entry; after a range calculation the entries up to fromIndex and from
\* toIndex on are kept and those strictly between them are the path nodes in
\* path order (two equal neighbours collapse into one afterwards)
C29_PathReplacesEnrouteSpan ==
  [][(op'.name = "calculateRoute" /\ op'.ret)
       => PlainIdents(route'.flightplan.entries)
            = CollapsedIdents(PathReplacesSpan(route.flightplan.entries, op'))]_vars

\* A range calculation between two legs of a plan with a procedure has put a
\* path of two nodes between them
C29_Witness ==
  /\ op.name = "calculateRoute"
  /\ op.ret
  /\ op.calcRange
  /\ Len(op.calculatedRoute) = 2
  /\ \E i \in Rows(route.legs) : At(route.legs, i).proc # "NONE"


\* The procedure legs of a route outside the procedure types of a mask, in
\* table order, each with its tag
ProcedureLegsOutside(r, mask) ==
  LET kept == SeqFilter(r.legs, {i \in Rows(r.legs) :
                                   At(r.legs, i).proc \in mask \cup {"NONE"}})
  IN [k \in 1 .. Len(kept) |-> <<kept[k].ident, kept[k].proc>>]

\* The index of a single-leg edit and the index of the end of the plan it
\* can touch: the destination, or the position after it when a leg is added
EditedIndex(o) ==
  IF o.name = "routeAdd" THEN o.insertIndex
  ELSE IF o.name = "routeReplace" THEN o.legIndex ELSE o.index
EditedLastIndex(r, o) ==
  IF o.name = "routeAdd" THEN RouteSize(r) ELSE RouteSize(r) - 1

C31_EmptyPlanOperationIsNoOp ==
  [][(op'.name \in {"reverseRoute", "calculateDirect"} /\ RouteIsEmpty(route))
       => /\ RouteIsEmpty(route')
          /\ route'.flightplan.entries = <<>>
          /\ undoStack' = undoStack
          /\ stackIndex' = stackIndex
          /\ undoIndex' = undoIndex
          /\ HasChanged' = HasChanged]_vars

\* reverseRoute has run on an empty plan and has left a command on the stack
C31_Witness ==
  /\ op.name = "reverseRoute"
  /\ op.before.idents = <<>>
  /\ RouteIsEmpty(route)
  /\ stackIndex > 0
  /\ undoStack[stackIndex].type = "REVERSE"


\* Entry k of the plan is the entry leg k of the route was built from: same
\* navaid or airport, a procedure entry for a procedure leg
LegBuiltFromEntry(leg, entry) ==
  /\ leg.ident = entry.ident
  /\ IsAnyProcedure(leg) = entry.noSave
  /\ IsAnyProcedure(leg)
       \/ leg.type = (IF entry.waypointType = "AIRPORT" THEN "AIRPORT" ELSE "WAYPOINT")

\* C32: after every completed mutator the entry list of the flight plan and
\* the leg list of the route have the same length and are index-aligned:
\* entry i is the entry from which leg i was built
C32_EntriesAndLegsAligned ==
  op.name # "terminated"
    => /\ Len(route.legs) = Len(route.flightplan.entries)
       /\ \A k \in 1 .. Len(route.legs) :
            LegBuiltFromEntry(route.legs[k], route.flightplan.entries[k])


\* routeAdd has completed for an insert index in front of the plan: the first
\* leg was built from another entry than the first entry of the plan
C32_Witness ==
  /\ op.name = "routeAdd"
  /\ op.insertIndex < 0
  /\ route.legs # <<>>
  /\ Len(route.legs) = Len(route.flightplan.entries)
  /\ route.legs[1].ident # route.flightplan.entries[1].ident


\* The insert indexes calculateInsertIndex computes for route r when no leg
\* index is given (legIndex = -1), for every result of the nearest leg search
IndexesWithoutLegIndex(r) ==
  {CalculateInsertIndex(r, -1, status, nearestlegIndex) :
     status \in LineDistanceStatus,
     nearestlegIndex \in 1 .. Max({1, RouteSize(r) - 1})}

\* The values stated for these indexes
InsertIndexAsClaimed(r) ==
  /\ IndexesWithoutLegIndex(r) \subseteq 0 .. RouteSize(r)
  /\ RouteIsEmpty(r) => IndexesWithoutLegIndex(r) = {0}
  /\ RouteSize(r) = 1 => IndexesWithoutLegIndex(r) = {1}

\* C33: routeAdd without a given leg index inserts at index 0 into the empty
\* plan and at index 1 into a plan of one entry, so that adding airport A and
\* then airport B to the empty plan gives a plan of size 2 with leg 0 the
\* departure A and leg 1 the destination B; the computed insert index always
\* lies in 0 .. size
C33_InsertIndexWithoutLegIndex ==
  [][/\ InsertIndexAsClaimed(route)
     /\ InsertIndexAsClaimed(route')
     /\ (/\ op'.name = "routeAdd"
         /\ "reported" \notin DOMAIN op'
         /\ RouteSize(route) = 1
         /\ RouteFirst(route).type = "AIRPORT"
         /\ op'.insertIndex \in IndexesWithoutLegIndex(route)
         /\ RouteLast(route').type = "AIRPORT")
          => /\ RouteSize(route') = 2
             /\ RouteFirst(route').ident = RouteFirst(route).ident
             /\ RouteFirst(route').type = "AIRPORT"
             /\ route'.flightplan.departureIdent = RouteFirst(route).ident
             /\ route'.flightplan.destinationIdent = RouteLast(route').ident
             /\ Idents(route'.flightplan.entries) = Idents(route'.legs)
     /\ (op'.name = "routeAdd" /\ "reported" \notin DOMAIN op' /\ RouteIsEmpty(route)
           /\ op'.insertIndex \in IndexesWithoutLegIndex(route))
          => RouteSize(route') = 1]_vars

\* Airport KB was added to the plan that held only airport KA
C33_Witness ==
  /\ op.name = "routeAdd"
  /\ op.insertIndex = 1
  /\ Idents(route.legs) = <<"KA", "KB">>
  /\ route.flightplan.departureIdent = "KA"
  /\ route.flightplan.destinationIdent = "KB"
  /\ stackIndex > 0
  /\ Idents(undoStack[stackIndex].before.entries) \in {<<"KA">>, <<>>}


\* C34: every access itemIndex.at(item->type()) of the approach tree is
\* within the bounds of itemIndex, for any item that is selected,
\* double-clicked, shown or hit by the context menu, the disabled placeholder
\* items included, in tree mode and in view mode
C34_ItemIndexAccessInBounds ==
  approachTree.outside = {}

\* The context menu was opened on the placeholder item of a tree that shows
\* no airport or an airport without approaches
C34_Witness ==
  /\ approachTree.handler = "contextMenu"
  /\ approachTree.menuItem = 1
  /\ approachTree.itemIndex = <<>>
  /\ Len(approachTree.items) = 1
  /\ approachTree.items[1].disabled

\* The number of saved entries in front of insertBefore, all of them for an
\* append
InsertPosition(entries, insertBefore) ==
  IF insertBefore >= Len(entries)
  THEN Cardinality({i \in Rows(entries) : ~At(entries, i).noSave})
  ELSE Cardinality({i \in Rows(entries) : i < insertBefore /\ ~At(entries, i).noSave})

\* C35: insertFlightplan puts the entries of the loaded plan into the plan as
\* one block in their order in the file: behind all entries for an append, and
\* for an insert behind the entries that were in front of the insert position;
\* the entries the plan had before keep their order.  Entries are the entries
\* that are saved, procedure legs are created again around them
C35_InsertedBlockContiguous ==
  [][(op'.name = "insertFlightplan" /\ op'.ret) =>
       LET before == PlainIdents(route.flightplan.entries)
           after == PlainIdents(route'.flightplan.entries)
           loaded == Idents(FileFlightplan(op'.filename).entries)
           pos == InsertPosition(route.flightplan.entries, op'.insertBefore)
       IN after = SubSeq(before, 1, pos) \o loaded \o SubSeq(before, pos + 1, Len(before))]_vars

C35_Witness ==
  /\ op.name = "insertFlightplan"
  /\ op.ret
  /\ op.filename = "b.pln"
  /\ op.insertBefore = 1
  /\ PlainIdents(route.flightplan.entries) = <<"KB", "KA", "KB", "KA">>
  /\ At(route.flightplan.entries, 1).noSave

\* The airport leg next to a procedure of the type, whether it is the given
\* airport, and the procedures of that side being the attached one only
AirportLeg(r, mapType) == IF mapType = "DEPARTURE" THEN RouteFirst(r) ELSE RouteLast(r)

AirportLegMatches(r, mapType, airport) ==
  /\ ~RouteIsEmpty(r)
  /\ AirportLeg(r, mapType).type = "AIRPORT"
  /\ AirportLeg(r, mapType).ident = airport

OnlyAttached(r, mapType, legs) ==
  CASE mapType = "DEPARTURE" -> r.departureLegs = legs
    [] mapType = "STAR" ->
         /\ r.starLegs = legs
         /\ IsEmptyProcedure(r.arrivalLegs)
         /\ RowsTagged(r, PROCEDURE_ARRIVAL) = {}
    [] OTHER ->
         /\ r.arrivalLegs = legs
         /\ IsEmptyProcedure(r.starLegs)
         /\ RowsTagged(r, PROCEDURE_STAR_ALL) = {}

\* C36: after routeAttachProcedure the airport leg next to the procedure is the
\* airport of the procedure: the last leg for a STAR or an approach, leg 0 for
\* a SID.  If that leg was another one before, or the plan was empty, the
\* procedures attached to that side before are gone and only the new one is
\* attached there; if it was that airport already, the leg is unchanged
C36_AttachSetsAirportLeg ==
  [][op'.name = "routeAttachProcedure" =>
       /\ AirportLegMatches(route', op'.mapType, op'.airport)
       /\ IF AirportLegMatches(route, op'.mapType, op'.airport)
          THEN AirportLeg(route', op'.mapType) = AirportLeg(route, op'.mapType)
          ELSE OnlyAttached(route', op'.mapType, op'.legs)]_vars

\* a STAR of KA was attached to the plan of a.pln, which ended with the
\* approach to KB: KA is the last leg and the approach is gone
C36_Witness ==
  /\ op.name = "routeAttachProcedure"
  /\ op.mapType = "STAR"
  /\ op.airport = "KA"
  /\ stackIndex > 0
  /\ undoStack[stackIndex].before.destinationIdent = "KB"
  /\ undoStack[stackIndex].before.properties.approach # ""
  /\ RouteLast(route).ident = "KA"
  /\ route.flightplan.properties.approach = ""
  /\ route.flightplan.properties.star # ""

\* A plan without procedure entries; a route whose plan has one procedure
\* entry per procedure leg; a step that leaves a new command on the stack
NoProcedureEntries(fp) == \A k \in 1 .. Len(fp.entries) : ~fp.entries[k].noSave

LivePlanKeepsProcedureEntries(r) ==
  /\ Len(r.flightplan.entries) = Len(r.legs)
  /\ \A k \in 1 .. Len(r.legs) : r.flightplan.entries[k].noSave <=> IsAnyProcedure(r.legs[k])

CommandPushed ==
  /\ op'.name \in {"routeAttachProcedure", "routeDelete", "deleteSelectedLegs"}
  /\ stackIndex' > 0
  /\ <<undoStack, stackIndex>>' # <<undoStack, stackIndex>>

\* C37: no snapshot stored in a command of the undo stack, before or after,
\* holds a procedure entry; and a command is pushed with the snapshots of the
\* plan before and after the change while the plan in use keeps its procedure
\* entries, one for each procedure leg, and undoIndex moves by the one step
\* of postChange; a command that is merged into the last one leaves that
\* one's before-snapshot and replaces its after-snapshot
C37_SnapshotsWithoutProcedureEntries ==
  /\ [](\A k \in 1 .. Len(undoStack) :
          NoProcedureEntries(undoStack[k].before) /\ NoProcedureEntries(undoStack[k].after))
  /\ [][CommandPushed =>
          /\ IF WouldMerge([UndoState EXCEPT !.undoIndex = undoIndex + 1],
                           undoStack'[stackIndex'].type)
             THEN undoStack'[stackIndex'].before = undoStack[stackIndex].before
             ELSE /\ undoStack'[stackIndex'].before = RemoveNoSaveEntries(route.flightplan)
                  /\ undoIndex' = undoIndex + 1
          /\ undoStack'[stackIndex'].after = RemoveNoSaveEntries(route'.flightplan)
          /\ LivePlanKeepsProcedureEntries(route')]_vars

\* a waypoint was deleted from a plan with procedure legs: the plan in use
\* still has its procedure entries, the snapshots have none
C37_Witness ==
  /\ op.name = "routeDelete"
  /\ stackIndex > 0
  /\ \E k \in 1 .. Len(route.flightplan.entries) : route.flightplan.entries[k].noSave
  /\ Len(undoStack[stackIndex].before.entries) = Len(undoStack[stackIndex].after.entries) + 1
  /\ undoStack[stackIndex].after = RemoveNoSaveEntries(route.flightplan)

\* C38: exportFlighplanAsClean leaves routeFilename, routeFileFormat,
\* fileDeparture, fileDestination, fileIfrVfr, undoIndexClean and hasChanged()
\* as they were before the call, for an export that succeeds and for one that
\* fails, whatever the file format of the plan
C38_ExportKeepsFileState ==
  [][op'.name = "exportFlighplanAsClean" =>
       /\ routeFilename' = routeFilename
       /\ routeFileFormat' = routeFileFormat
       /\ fileDeparture' = fileDeparture
       /\ fileDestination' = fileDestination
       /\ fileIfrVfr' = fileIfrVfr
       /\ undoIndexClean' = undoIndexClean
       /\ HasChanged' = HasChanged]_vars

\* the changed plan of an old format file was exported with success
C38_Witness ==
  /\ op.name = "exportFlighplanAsClean"
  /\ op.ret
  /\ route.flightplan.fileFormat = "PLN_FS9"
  /\ routeFileFormat = "PLN_FS9"
  /\ routeFilename = "b.pln"
  /\ HasChanged
  /\ fileDeparture # route.flightplan.departureIdent

====
